---- MODULE Spec2Model ----
(***************************************************************************)
(* Model of the spreadsheet assistant of backend/services/langchain_excel  *)
(* (class AdvancedExcelChatbot and the global instance excel_bot) and of   *)
(* the request layer in backend/routes/excel_chat.                         *)
(*                                                                         *)
(* Text is modelled by TLA+ strings; a character is a string of length 1.  *)
(* A table (pandas DataFrame) is a record [cols, rows]: cols is the        *)
(* ordered sequence of [name, kind] with kind one of "number" (np.number), *)
(* "datetime" (datetime64) and "object"; rows is the sequence of rows, a   *)
(* row the sequence of its cells in column order.  A cell is <<>> when it  *)
(* is null (NaN / NaT / None) and <<v>> otherwise: v an integer for a      *)
(* number, a day ordinal of the year 2023 (1 = 2023-01-01) for a date and  *)
(* a string for text.                                                      *)
(***************************************************************************)
EXTENDS Integers, Sequences, FiniteSets, TLC

VARIABLES
    sheets,       \* excel_bot.sheets: an ordered dict, as the sequence of its items
    dataframes,   \* excel_bot.dataframes: an ordered dict, as the sequence of its items
    resp,         \* the call that has just returned, with what it returned
    prev,         \* the call made just before the one in resp, when the
                  \* caller followed one call by another
    tempfiles,    \* the number of files in the directory of temporary files
    calls         \* the clean_data calls in progress, one per request thread

vars == <<sheets, dataframes, resp, prev, tempfiles, calls>>

\* what the calls of the chatbot object made one at a time leave alone
others == <<tempfiles, calls>>

store == <<sheets, dataframes>>

-----------------------------------------------------------------------------
(* Characters and strings                                                  *)

\* the characters of the data of the model, in code point order
Ascii ==
    " -.0123456789ABCDEFGHIJKLMNOPQRSTUVWXYZ_abcdefghijklmnopqrstuvwxyz"

Upper == "ABCDEFGHIJKLMNOPQRSTUVWXYZ"

LowerAlpha == "abcdefghijklmnopqrstuvwxyz"

Digits == "0123456789"

CharAt(s, i) == SubSeq(s, i, i)

\* position of character c in string s, 0 when absent
IndexIn(c, s) ==
    LET at == {i \in 1..Len(s) : CharAt(s, i) = c}
    IN IF at = {} THEN 0 ELSE CHOOSE i \in at : \A j \in at : i <= j

\* ord(c), as the rank of c among the characters of the model
Ord == [c \in {CharAt(Ascii, i) : i \in 1..Len(Ascii)} |-> IndexIn(c, Ascii)]

DigitVals == [c \in {CharAt(Digits, i) : i \in 1..Len(Digits)} |-> IndexIn(c, Digits) - 1]

IsDigit(c) == c \in DOMAIN DigitVals

DigitVal(c) == DigitVals[c]

IsSpace(c) == c \in {" ", "\t", "\n", "\r", "\f"}

\* str.lower on one character
LowerChars == [c \in {CharAt(Upper, i) : i \in 1..Len(Upper)} |->
                  CharAt(LowerAlpha, IndexIn(c, Upper))]

LowerChar(c) == IF c \in DOMAIN LowerChars THEN LowerChars[c] ELSE c

RECURSIVE Lower(_)
Lower(s) ==
    IF Len(s) = 0 THEN "" ELSE LowerChar(CharAt(s, 1)) \o Lower(SubSeq(s, 2, Len(s)))

\* str.upper on one character
UpperChars == [c \in {CharAt(LowerAlpha, i) : i \in 1..Len(LowerAlpha)} |->
                  CharAt(Upper, IndexIn(c, LowerAlpha))]

UpperChar(c) == IF c \in DOMAIN UpperChars THEN UpperChars[c] ELSE c

\* whether the character is cased
IsCased(c) == c \in DOMAIN LowerChars \/ c \in DOMAIN UpperChars

\* str.strip()
RECURSIVE Strip(_)
Strip(s) ==
    IF Len(s) = 0 THEN ""
    ELSE IF IsSpace(CharAt(s, 1)) THEN Strip(SubSeq(s, 2, Len(s)))
    ELSE IF IsSpace(CharAt(s, Len(s))) THEN Strip(SubSeq(s, 1, Len(s) - 1))
    ELSE s

\* str.title() from position i on: a cased character that follows a cased
\* one is lower-cased, any other is upper-cased
RECURSIVE TitleFrom(_, _, _)
TitleFrom(s, i, previous_is_cased) ==
    IF i > Len(s) THEN ""
    ELSE LET c == CharAt(s, i)
         IN (IF previous_is_cased THEN LowerChar(c) ELSE UpperChar(c))
                \o TitleFrom(s, i + 1, IsCased(c))

Title(s) == TitleFrom(s, 1, FALSE)

\* the substring test (k in t) of Python
Contains(t, k) ==
    \E i \in 1..(Len(t) - Len(k) + 1) : SubSeq(t, i, i + Len(k) - 1) = k

\* any(keyword in text for keyword in keywords)
AnyIn(keywords, t) == \E i \in 1..Len(keywords) : Contains(t, keywords[i])

\* the ordering of Python strings (by code point)
RECURSIVE StrLess(_, _)
StrLess(a, b) ==
    IF Len(b) = 0 THEN FALSE
    ELSE IF Len(a) = 0 THEN TRUE
    ELSE LET x == Ord[CharAt(a, 1)]
             y == Ord[CharAt(b, 1)]
         IN IF x # y THEN x < y
            ELSE StrLess(SubSeq(a, 2, Len(a)), SubSeq(b, 2, Len(b)))

-----------------------------------------------------------------------------
(* Sequences                                                               *)

Head_n(s, n) == SubSeq(s, 1, IF Len(s) < n THEN Len(s) ELSE n)

Range(s) == {s[i] : i \in 1..Len(s)}

Last(s) == s[Len(s)]

RECURSIVE Pow10(_)
Pow10(d) == IF d = 0 THEN 1 ELSE 10 * Pow10(d - 1)

-----------------------------------------------------------------------------
(* Reference extractor: literals and conditions (regular expressions)     *)

\* the last index of the run of digits that starts at i (a digit is at i)
RECURSIVE DigitsEnd(_, _)
DigitsEnd(s, i) ==
    IF i < Len(s) /\ IsDigit(CharAt(s, i + 1)) THEN DigitsEnd(s, i + 1) ELSE i

\* the last index of the match of \d+(?:\.\d+)? that starts at i
NumberEnd(s, i) ==
    LET e == DigitsEnd(s, i)
    IN IF e + 2 <= Len(s) /\ CharAt(s, e + 1) = "." /\ IsDigit(CharAt(s, e + 2))
       THEN DigitsEnd(s, e + 2)
       ELSE e

RECURSIVE ParseInt(_)
ParseInt(s) ==
    IF Len(s) = 0 THEN 0
    ELSE 10 * ParseInt(SubSeq(s, 1, Len(s) - 1)) + DigitVal(CharAt(s, Len(s)))

RECURSIVE Normalized(_, _)
\* m / 10^d without trailing zero decimals
Normalized(m, d) ==
    IF d > 0 /\ m % 10 = 0 THEN Normalized(m \div 10, d - 1) ELSE [m |-> m, d |-> d]

\* float(num) if the text has a point, else int(num): the number m / 10^d, isint when
\* the literal has no decimal point (a Python int)
ParseNumber(num) ==
    IF Contains(num, ".")
    THEN LET dot  == IndexIn(".", num)
             frac == SubSeq(num, dot + 1, Len(num))
             n    == Normalized(ParseInt(SubSeq(num, 1, dot - 1) \o frac), Len(frac))
         IN [isint |-> FALSE, m |-> n.m, d |-> n.d]
    ELSE [isint |-> TRUE, m |-> ParseInt(num), d |-> 0]

RECURSIVE FindNumbers(_, _)
\* re.findall(r'\d+(?:\.\d+)?', s) from index i on, each match converted
FindNumbers(s, i) ==
    IF i > Len(s) THEN <<>>
    ELSE IF IsDigit(CharAt(s, i))
         THEN <<ParseNumber(SubSeq(s, i, NumberEnd(s, i)))>>
                  \o FindNumbers(s, NumberEnd(s, i) + 1)
         ELSE FindNumbers(s, i + 1)

_extract_values_from_query(query) == FindNumbers(query, 1)

RECURSIVE SkipSpaces(_, _)
\* the first index from i on that holds no white space
SkipSpaces(s, i) ==
    IF i <= Len(s) /\ IsSpace(CharAt(s, i)) THEN SkipSpaces(s, i + 1) ELSE i

RECURSIVE FindComparisons(_, _, _)
\* re.findall(op + r'\s*(\d+(?:\.\d+)?)', s) from index i on, as conditions
FindComparisons(s, op, i) ==
    IF i + Len(op) - 1 > Len(s) THEN <<>>
    ELSE LET j == SkipSpaces(s, i + Len(op))
         IN IF SubSeq(s, i, i + Len(op) - 1) = op /\ j <= Len(s) /\ IsDigit(CharAt(s, j))
            THEN <<[operator |-> op, value |-> ParseNumber(SubSeq(s, j, NumberEnd(s, j)))]>>
                     \o FindComparisons(s, op, NumberEnd(s, j) + 1)
            ELSE FindComparisons(s, op, i + 1)

\* the operators of the list comparisons, in its order
comparisons == <<">", "<", ">=", "<=", "=">>

RECURSIVE ConditionsFrom(_, _)
ConditionsFrom(query, k) ==
    IF k > Len(comparisons) THEN <<>>
    ELSE FindComparisons(query, comparisons[k], 1) \o ConditionsFrom(query, k + 1)

_extract_conditions_from_query(query) == ConditionsFrom(query, 1)

-----------------------------------------------------------------------------
(* Tables                                                                  *)

Null == <<>>

IsNull(cell) == cell = <<>>

ColumnNames(df) == [i \in 1..Len(df.cols) |-> df.cols[i].name]

\* the position of column col in df (col is a column of df)
ColIdx(df, col) == CHOOSE i \in 1..Len(df.cols) : df.cols[i].name = col

KindOf(df, col) == df.cols[ColIdx(df, col)].kind

Cell(df, row, col) == row[ColIdx(df, col)]

\* df.select_dtypes(include=[kind]).columns
select_dtypes(df, kind) ==
    LET names == ColumnNames(df)
    IN SelectSeq(names, LAMBDA c : KindOf(df, c) = kind)

\* df[mask]: the frame df with the rows kept by the mask, in order
Masked(df, kept) == [df EXCEPT !.rows = kept]

-----------------------------------------------------------------------------
(* Intent classifier                                                       *)

\* a dict with keyword sets for the comparison and trend intents as well
patterns_all == <<
    [qtype |-> "aggregation",
     keywords |-> <<"sum", "total", "average", "mean", "count", "max", "min",
                    "highest", "lowest">>],
    [qtype |-> "filter",
     keywords |-> <<"show", "find", "filter", "where", "above", "below",
                    "greater", "less", "equal">>],
    [qtype |-> "groupby",
     keywords |-> <<"by", "group", "each", "per", "for each", "grouped by">>],
    [qtype |-> "top_n",
     keywords |-> <<"top", "highest", "best", "leading">>],
    [qtype |-> "comparison", keywords |-> <<"compare", "versus">>],
    [qtype |-> "trend", keywords |-> <<"trend", "over time">>] >>

\* a dict whose aggregation keywords have a word of no aggregation kind
patterns_sales == <<
    [qtype |-> "aggregation",
     keywords |-> <<"sum", "total", "average", "mean", "count", "max", "min",
                    "highest", "lowest", "sales">>],
    [qtype |-> "filter",
     keywords |-> <<"show", "find", "filter", "where", "above", "below",
                    "greater", "less", "equal">>],
    [qtype |-> "groupby",
     keywords |-> <<"by", "group", "each", "per", "for each", "grouped by">>],
    [qtype |-> "top_n",
     keywords |-> <<"top", "highest", "best", "leading">>] >>

\* the dict patterns, in insertion order (the order a dict is iterated in)
patterns == <<
    [qtype |-> "aggregation",
     keywords |-> <<"sum", "total", "average", "mean", "count", "max", "min",
                    "highest", "lowest">>],
    [qtype |-> "filter",
     keywords |-> <<"show", "find", "filter", "where", "above", "below",
                    "greater", "less", "equal">>],
    [qtype |-> "groupby",
     keywords |-> <<"by", "group", "each", "per", "for each", "grouped by">>],
    [qtype |-> "top_n",
     keywords |-> <<"top", "highest", "best", "leading">> ] >>

RECURSIVE LastPattern(_, _)
\* the loop without its break: the last entry that matches wins
LastPattern(query_lower, k) ==
    IF k > Len(patterns) THEN "general"
    ELSE LET later == LastPattern(query_lower, k + 1)
         IN IF later # "general" THEN later
            ELSE IF AnyIn(patterns[k].keywords, query_lower) THEN patterns[k].qtype
            ELSE "general"

RECURSIVE FirstPattern(_, _)
\* the loop over patterns.items(): the first entry, from k on, one of whose
\* keywords occurs in query_lower; "general" when the loop ends without one
FirstPattern(query_lower, k) ==
    IF k > Len(patterns) THEN "general"
    ELSE IF AnyIn(patterns[k].keywords, query_lower) THEN patterns[k].qtype
    ELSE FirstPattern(query_lower, k + 1)

\* a classifier that looks at the table: a query that names no column of df
\* is general
QueryTypeOfReferenced(query, df) ==
    IF \E c \in Range(ColumnNames(df)) : Contains(Lower(query), Lower(c))
    THEN FirstPattern(Lower(query), 1)
    ELSE "general"

\* the query type computed by _parse_natural_language_query
QueryType(query, df) == FirstPattern(Lower(query), 1)

-----------------------------------------------------------------------------
(* Reference extractor: columns, calendar, aggregation kind                *)

column_synonyms == <<
    [synonym |-> "revenue",  variants |-> <<"sales", "income", "earnings">>],
    [synonym |-> "profit",   variants |-> <<"margin", "gain", "earnings">>],
    [synonym |-> "cost",     variants |-> <<"expense", "expenditure">>],
    [synonym |-> "date",     variants |-> <<"time", "period", "month", "year">>],
    [synonym |-> "product",  variants |-> <<"item", "goods", "merchandise">>],
    [synonym |-> "customer", variants |-> <<"client", "buyer", "user">> ] >>

\* appends to columns the columns of names (in order) that are in hits and
\* not yet in columns
RECURSIVE AppendNew(_, _, _, _)
AppendNew(columns, names, hits, i) ==
    IF i > Len(names) THEN columns
    ELSE AppendNew(IF names[i] \in hits /\ names[i] \notin Range(columns)
                   THEN Append(columns, names[i]) ELSE columns,
                   names, hits, i + 1)

RECURSIVE SynonymColumns(_, _, _, _)
SynonymColumns(columns, names, query_lower, k) ==
    IF k > Len(column_synonyms) THEN columns
    ELSE SynonymColumns(
            IF AnyIn(column_synonyms[k].variants, query_lower)
            THEN AppendNew(columns, names,
                     {c \in Range(names) : Contains(Lower(c), column_synonyms[k].synonym)}, 1)
            ELSE columns,
            names, query_lower, k + 1)

\* an extractor that gives the columns found in the order of the table
_extract_columns_declared(query, df) ==
    LET query_lower == Lower(query)
        names  == ColumnNames(df)
        direct == SelectSeq(names, LAMBDA c : Contains(query_lower, Lower(c)))
        found  == SynonymColumns(direct, names, query_lower, 1)
    IN SelectSeq(names, LAMBDA c : c \in Range(found))

_extract_columns_from_query(query, df) ==
    LET query_lower == Lower(query)
        names  == ColumnNames(df)
        direct == SelectSeq(names, LAMBDA c : Contains(query_lower, Lower(c)))
    IN SynonymColumns(direct, names, query_lower, 1)

quarters == <<"q1", "q2", "q3", "q4">>

months == <<"january", "february", "march", "april", "may", "june", "july",
            "august", "september", "october", "november", "december">>

\* a loop that stops at the first name that occurs
FirstNamed(names, query_lower) ==
    LET hit == {i \in 1..Len(names) : Contains(query_lower, names[i])}
    IN IF hit = {} THEN 0 ELSE CHOOSE i \in hit : \A j \in hit : i <= j

\* the value the loop over a dict of names leaves: the number of the last
\* name, in dict order, that occurs in query_lower; 0 when the key is not set
LastNamed(names, query_lower) ==
    LET hit == {i \in 1..Len(names) : Contains(query_lower, names[i])}
    IN IF hit = {} THEN 0 ELSE CHOOSE i \in hit : \A j \in hit : j <= i

\* the dict time_filters: a key is present when its value is not 0
_extract_time_filters(query) ==
    [quarter |-> LastNamed(quarters, Lower(query)),
     month   |-> LastNamed(months, Lower(query))]

\* an extractor that looks for the words of a mean before those of a sum
_extract_aggregation_type_mean_first(query) ==
    LET query_lower == Lower(query)
    IN IF AnyIn(<<"average", "mean", "avg">>, query_lower) THEN "mean"
       ELSE IF AnyIn(<<"sum", "total", "add">>, query_lower) THEN "sum"
       ELSE IF AnyIn(<<"count", "number">>, query_lower) THEN "count"
       ELSE IF AnyIn(<<"max", "highest", "maximum">>, query_lower) THEN "max"
       ELSE IF AnyIn(<<"min", "lowest", "minimum">>, query_lower) THEN "min"
       ELSE "sum"

\* an extractor that takes total for a count
_extract_aggregation_type_count(query) ==
    LET query_lower == Lower(query)
    IN IF AnyIn(<<"sum", "add">>, query_lower) THEN "sum"
       ELSE IF AnyIn(<<"average", "mean", "avg">>, query_lower) THEN "mean"
       ELSE IF AnyIn(<<"count", "number", "total">>, query_lower) THEN "count"
       ELSE IF AnyIn(<<"max", "highest", "maximum">>, query_lower) THEN "max"
       ELSE IF AnyIn(<<"min", "lowest", "minimum">>, query_lower) THEN "min"
       ELSE "sum"

_extract_aggregation_type(query) ==
    LET query_lower == Lower(query)
    IN IF AnyIn(<<"sum", "total", "add">>, query_lower) THEN "sum"
       ELSE IF AnyIn(<<"average", "mean", "avg">>, query_lower) THEN "mean"
       ELSE IF AnyIn(<<"count", "number">>, query_lower) THEN "count"
       ELSE IF AnyIn(<<"max", "highest", "maximum">>, query_lower) THEN "max"
       ELSE IF AnyIn(<<"min", "lowest", "minimum">>, query_lower) THEN "min"
       ELSE "sum"

_parse_natural_language_query(query, df) ==
    [type             |-> QueryType(query, df),
     original_query   |-> query,
     columns          |-> _extract_columns_from_query(query, df),
     values           |-> _extract_values_from_query(query),
     conditions       |-> _extract_conditions_from_query(query),
     time_filters     |-> _extract_time_filters(query),
     aggregation_type |-> _extract_aggregation_type(query)]

-----------------------------------------------------------------------------
(* Dates: a date is its day ordinal in 2023                                *)

\* the last day ordinal of each month of 2023
MonthEnds == <<31, 59, 90, 120, 151, 181, 212, 243, 273, 304, 334, 365>>

\* Series.dt.month
MonthOf(day) == CHOOSE m \in 1..12 : day <= MonthEnds[m] /\ (m = 1 \/ day > MonthEnds[m - 1])

\* Series.dt.quarter
QuarterOf(day) == ((MonthOf(day) - 1) \div 3) + 1

-----------------------------------------------------------------------------
(* Query executor: calendar filter and comparison conditions               *)

_apply_time_filters(df, time_filters) ==
    IF time_filters.quarter = 0 /\ time_filters.month = 0 THEN df
    ELSE LET date_cols == select_dtypes(df, "datetime")
         IN IF Len(date_cols) = 0 THEN df
            ELSE LET date_col == date_cols[1]
                     byQuarter ==
                         IF time_filters.quarter # 0
                         THEN Masked(df, SelectSeq(df.rows, LAMBDA r :
                                    /\ ~IsNull(Cell(df, r, date_col))
                                    /\ QuarterOf(Cell(df, r, date_col)[1]) = time_filters.quarter))
                         ELSE df
                 IN IF time_filters.month # 0
                    THEN Masked(byQuarter, SelectSeq(byQuarter.rows, LAMBDA r :
                                    /\ ~IsNull(Cell(df, r, date_col))
                                    /\ MonthOf(Cell(df, r, date_col)[1]) = time_filters.month))
                    ELSE byQuarter

\* x (an integer) compared with the literal value, the number m / 10^d
Compares(x, operator, value) ==
    LET a == x * Pow10(value.d)
    IN CASE operator = ">"  -> a > value.m
         [] operator = "<"  -> a < value.m
         [] operator = ">=" -> a >= value.m
         [] operator = "<=" -> a <= value.m
         [] operator = "="  -> a = value.m

\* whether filtered_df[col] <op> value raises TypeError: an ordering of a
\* datetime column with a number, or of a string of an object column with a
\* number (pandas compares the cells of an object column one by one and
\* takes a null cell as False)
ComparisonRaises(fdf, col, condition) ==
    /\ condition.operator # "="
    /\ \/ KindOf(fdf, col) = "datetime"
       \/ /\ KindOf(fdf, col) = "object"
          /\ \E i \in 1..Len(fdf.rows) : ~IsNull(Cell(fdf, fdf.rows[i], col))

\* filtered_df[filtered_df[col] <op> value]: a null is never kept, and a date
\* or a string never equals a number
ApplyComparison(fdf, col, condition) ==
    IF KindOf(fdf, col) = "number"
    THEN Masked(fdf, SelectSeq(fdf.rows, LAMBDA r :
                   /\ ~IsNull(Cell(fdf, r, col))
                   /\ Compares(Cell(fdf, r, col)[1], condition.operator, condition.value)))
    ELSE Masked(fdf, <<>>)

\* one pass of the inner loop (for col in columns) from column k on; the
\* value is [ok, df]: ok is FALSE when a comparison raised
RECURSIVE ApplyToColumns(_, _, _, _)
ApplyToColumns(try, columns, condition, k) ==
    IF ~try.ok \/ k > Len(columns) THEN try
    ELSE IF columns[k] \notin Range(ColumnNames(try.df))
         THEN ApplyToColumns(try, columns, condition, k + 1)
    ELSE IF ComparisonRaises(try.df, columns[k], condition)
         THEN [ok |-> FALSE, df |-> try.df]
    ELSE ApplyToColumns(
            [ok |-> TRUE, df |-> ApplyComparison(try.df, columns[k], condition)],
            columns, condition, k + 1)

\* a loop that stops after the first condition
ApplyFirstCondition(try, conditions, columns, k) ==
    IF Len(conditions) = 0 THEN try
    ELSE ApplyToColumns(try, columns, conditions[1], 1)

\* the outer loop (for condition in conditions) from condition k on
RECURSIVE ApplyConditions(_, _, _, _)
ApplyConditions(try, conditions, columns, k) ==
    IF ~try.ok \/ k > Len(conditions) THEN try
    ELSE ApplyConditions(ApplyToColumns(try, columns, conditions[k], 1),
                         conditions, columns, k + 1)

-----------------------------------------------------------------------------
(* Query executor: aggregates                                              *)

\* the non-null values of column col, in row order
Values(df, col) ==
    LET cells == [i \in 1..Len(df.rows) |-> Cell(df, df.rows[i], col)]
        full  == SelectSeq(cells, LAMBDA c : ~IsNull(c))
    IN [i \in 1..Len(full) |-> full[i][1]]

HasNull(df, col) == \E i \in 1..Len(df.rows) : IsNull(Cell(df, df.rows[i], col))

RECURSIVE SumSeq(_)
SumSeq(xs) == IF Len(xs) = 0 THEN 0 ELSE xs[1] + SumSeq(Tail(xs))

RECURSIVE ConcatSeq(_)
ConcatSeq(xs) == IF Len(xs) = 0 THEN "" ELSE xs[1] \o ConcatSeq(Tail(xs))

MaxInt(xs) == CHOOSE x \in Range(xs) : \A y \in Range(xs) : y <= x

MinInt(xs) == CHOOSE x \in Range(xs) : \A y \in Range(xs) : x <= y

MaxStr(xs) == CHOOSE x \in Range(xs) : \A y \in Range(xs) : ~StrLess(x, y)

MinStr(xs) == CHOOSE x \in Range(xs) : \A y \in Range(xs) : ~StrLess(y, x)

\* the scalars an aggregate returns
NaN == [k |-> "nan"]

IntValue(n) == [k |-> "int", int |-> n]

\* the exact quotient num / den
Ratio(num, den) == [k |-> "ratio", num |-> num, den |-> den]

DateValue(day) == [k |-> "date", day |-> day]

StrValue(str) == [k |-> "str", str |-> str]

\* whether filtered_df[col].<agg_type>() raises TypeError: a sum of dates,
\* a mean of strings, and a sum, max or min of strings mixed with nulls
AggregateRaises(df, col, agg_type) ==
    LET kind == KindOf(df, col)
        some == Len(Values(df, col)) > 0
    IN \/ kind = "datetime" /\ agg_type = "sum"
       \/ kind = "object" /\ some /\ agg_type = "mean"
       \/ kind = "object" /\ some /\ HasNull(df, col) /\ agg_type \in {"sum", "max", "min"}

\* filtered_df[col].sum() / .mean() / .count() / .max() / .min(), nulls skipped
Aggregate(df, col, agg_type) ==
    LET kind == KindOf(df, col)
        xs   == Values(df, col)
    IN CASE agg_type = "count" -> IntValue(Len(xs))
         [] agg_type = "sum" ->
                IF kind = "object" /\ Len(xs) > 0 THEN StrValue(ConcatSeq(xs))
                ELSE IF kind = "object" THEN IntValue(0)
                ELSE IntValue(SumSeq(xs))
         [] agg_type = "mean" ->
                IF Len(xs) = 0 THEN NaN ELSE Ratio(SumSeq(xs), Len(xs))
         [] agg_type \in {"max", "min"} ->
                IF Len(xs) = 0 THEN NaN
                ELSE IF kind = "object"
                     THEN StrValue(IF agg_type = "max" THEN MaxStr(xs) ELSE MinStr(xs))
                ELSE IF kind = "datetime"
                     THEN DateValue(IF agg_type = "max" THEN MaxInt(xs) ELSE MinInt(xs))
                ELSE IntValue(IF agg_type = "max" THEN MaxInt(xs) ELSE MinInt(xs))

-----------------------------------------------------------------------------
(* Query executor: one operation per intent.  Each gives [result, df]:     *)
(* result is the dict returned and df is the frame passed in as the call   *)
(* leaves it (the same object is held by self.sheets and self.dataframes). *)

Error(message) == [error |-> message]

_execute_aggregation_query(df, parsed_query) ==
    LET agg_type     == parsed_query.aggregation_type
        numeric_cols == select_dtypes(df, "number")
        columns      == IF Len(parsed_query.columns) = 0 /\ Len(numeric_cols) > 0
                        THEN <<numeric_cols[1]>>
                        ELSE parsed_query.columns
        filtered     == ApplyConditions(
                            [ok |-> TRUE, df |-> _apply_time_filters(df, parsed_query.time_filters)],
                            parsed_query.conditions, columns, 1)
        filtered_df  == filtered.df
    IN IF Len(columns) = 0
       THEN [result |-> Error("No numeric columns found for aggregation"), df |-> df]
       ELSE IF ~filtered.ok
               \/ \E i \in 1..Len(columns) : AggregateRaises(filtered_df, columns[i], agg_type)
       THEN [result |-> Error("Error in aggregation"), df |-> df]
       ELSE [result |->
                [type          |-> "aggregation",
                 operation     |-> agg_type,
                 columns       |-> columns,
                 results       |-> [c \in Range(columns) |-> Aggregate(filtered_df, c, agg_type)],
                 filtered_rows |-> Len(filtered_df.rows),
                 total_rows    |-> Len(df.rows)],
             df |-> df]

\* a filter that drops the rows from the frame it was given
_execute_filter_query_inplace(df, parsed_query) ==
    LET filtered == ApplyConditions([ok |-> TRUE, df |-> df],
                                    parsed_query.conditions, parsed_query.columns, 1)
    IN IF ~filtered.ok \/ Len(df.rows) = 0
       THEN [result |-> Error("Error in filtering"), df |-> df]
       ELSE [result |->
                [type          |-> "filter",
                 filtered_rows |-> Len(filtered.df.rows),
                 total_rows    |-> Len(df.rows),
                 data          |-> Head_n(filtered.df.rows, 20),
                 columns       |-> ColumnNames(filtered.df),
                 summary       |-> [rows_returned |-> Len(filtered.df.rows),
                                    percentage_of_total |->
                                        Ratio(Len(filtered.df.rows) * 100, Len(df.rows))]],
             df |-> filtered.df]

_execute_filter_query(df, parsed_query) ==
    LET filtered    == ApplyConditions([ok |-> TRUE, df |-> df],
                                       parsed_query.conditions, parsed_query.columns, 1)
        filtered_df == filtered.df
    IN IF ~filtered.ok \/ Len(df.rows) = 0   \* TypeError, or the division by len(df)
       THEN [result |-> Error("Error in filtering"), df |-> df]
       ELSE [result |->
                [type          |-> "filter",
                 filtered_rows |-> Len(filtered_df.rows),
                 total_rows    |-> Len(df.rows),
                 data          |-> Head_n(filtered_df.rows, 20),
                 columns       |-> ColumnNames(filtered_df),
                 summary       |-> [rows_returned |-> Len(filtered_df.rows),
                                    percentage_of_total |->
                                        Ratio(Len(filtered_df.rows) * 100, Len(df.rows))]],
             df |-> df]

\* the order of group keys (tuples of text cells of the same length)
RECURSIVE KeyLess(_, _)
KeyLess(a, b) ==
    IF Len(a) = 0 THEN FALSE
    ELSE IF a[1] # b[1] THEN StrLess(a[1][1], b[1][1])
    ELSE KeyLess(Tail(a), Tail(b))

RECURSIVE SortKeys(_)
SortKeys(keys) ==
    IF keys = {} THEN <<>>
    ELSE LET least == CHOOSE a \in keys : \A b \in keys : ~KeyLess(b, a)
         IN <<least>> \o SortKeys(keys \ {least})

\* the key of a row: its cells in the grouping columns
GroupKey(df, row, grouping_cols) ==
    [i \in 1..Len(grouping_cols) |-> Cell(df, row, grouping_cols[i])]

\* df.groupby(grouping_cols)[agg_cols].agg(['sum', 'mean', 'count']).reset_index():
\* one row per key, keys sorted, a row with a null key in no group
GroupAggregate(df, grouping_cols, agg_cols) ==
    LET keyed == SelectSeq(df.rows, LAMBDA r :
                     \A i \in 1..Len(grouping_cols) : ~IsNull(Cell(df, r, grouping_cols[i])))
        keys  == SortKeys({GroupKey(df, keyed[i], grouping_cols) : i \in 1..Len(keyed)})
        Group(key) == Masked(df, SelectSeq(df.rows,
                                 LAMBDA r : GroupKey(df, r, grouping_cols) = key))
    IN [g \in 1..Len(keys) |->
           [key  |-> [i \in 1..Len(grouping_cols) |-> keys[g][i][1]],
            aggs |-> [c \in Range(agg_cols) |->
                        [sum   |-> Aggregate(Group(keys[g]), c, "sum"),
                         mean  |-> Aggregate(Group(keys[g]), c, "mean"),
                         count |-> Aggregate(Group(keys[g]), c, "count")]]]]

\* a groupby that takes every referenced column as a group key
_execute_groupby_query_keys(df, parsed_query) ==
    LET columns      == parsed_query.columns
        text_cols    == SelectSeq(columns, LAMBDA c : KindOf(df, c) = "object")
        numeric_cols == select_dtypes(df, "number")
        grouped      == GroupAggregate(df, text_cols, <<numeric_cols[1]>>)
    IN IF Len(columns) = 0
       THEN [result |-> Error("No grouping columns found"), df |-> df]
       ELSE IF Len(numeric_cols) = 0
       THEN [result |-> Error("No numeric columns found for aggregation"), df |-> df]
       ELSE [result |->
                [type                |-> "groupby",
                 grouping_columns    |-> columns,
                 aggregation_columns |-> <<numeric_cols[1]>>,
                 data                |-> Head_n(grouped, 20),
                 total_groups        |-> Len(grouped)],
             df |-> df]

_execute_groupby_query(df, parsed_query) ==
    LET columns       == parsed_query.columns
        grouping_cols == SelectSeq(columns, LAMBDA c : KindOf(df, c) = "object")
        referenced    == SelectSeq(columns, LAMBDA c : KindOf(df, c) # "object")
        numeric_cols  == select_dtypes(df, "number")
        agg_cols      == IF Len(referenced) = 0 /\ Len(numeric_cols) > 0
                         THEN <<numeric_cols[1]>>
                         ELSE referenced
        grouped       == GroupAggregate(df, grouping_cols, agg_cols)
    IN IF Len(grouping_cols) = 0
       THEN [result |-> Error("No grouping columns found"), df |-> df]
       ELSE IF Len(agg_cols) = 0
       THEN [result |-> Error("No numeric columns found for aggregation"), df |-> df]
       ELSE IF \E i \in 1..Len(agg_cols) : KindOf(df, agg_cols[i]) = "datetime"
       THEN [result |-> Error("Error in groupby"), df |-> df]   \* a sum of dates
       ELSE [result |->
                [type                |-> "groupby",
                 grouping_columns    |-> grouping_cols,
                 aggregation_columns |-> agg_cols,
                 data                |-> Head_n(grouped, 20),
                 total_groups        |-> Len(grouped)],
             df |-> df]

\* the index in rows of the first row whose value in col is the largest
FirstLargest(df, rows, col) ==
    CHOOSE i \in 1..Len(rows) :
        /\ \A j \in 1..Len(rows) : Cell(df, rows[j], col)[1] <= Cell(df, rows[i], col)[1]
        /\ \A j \in 1..(i - 1) : Cell(df, rows[j], col)[1] < Cell(df, rows[i], col)[1]

RECURSIVE SortDescending(_, _, _)
\* rows (none null in col) by descending value, equal values in row order
SortDescending(df, rows, col) ==
    IF Len(rows) = 0 THEN <<>>
    ELSE LET i == FirstLargest(df, rows, col)
         IN <<rows[i]>> \o SortDescending(df,
                SubSeq(rows, 1, i - 1) \o SubSeq(rows, i + 1, Len(rows)), col)

\* the n first rows with a value in col, then those without, unsorted
head_valued(df, n, col) ==
    LET valued == SelectSeq(df.rows, LAMBDA r : ~IsNull(Cell(df, r, col)))
        nulls  == SelectSeq(df.rows, LAMBDA r : IsNull(Cell(df, r, col)))
    IN Head_n(valued \o nulls, n)

\* df.nlargest(n, col), keep='first': the n first rows of the frame ordered by
\* descending col, equal values in row order, rows with a null col last
nlargest(df, n, col) ==
    LET valued == SelectSeq(df.rows, LAMBDA r : ~IsNull(Cell(df, r, col)))
        nulls  == SelectSeq(df.rows, LAMBDA r : IsNull(Cell(df, r, col)))
    IN Head_n(SortDescending(df, valued, col) \o nulls, n)

\* a loop that takes the first number between 1 and 100, a float included
TopCountAnyNumber(values) ==
    LET fit == SelectSeq(values, LAMBDA v : v.d = 0 /\ 1 <= v.m /\ v.m <= 100)
    IN IF Len(fit) > 0 THEN fit[1].m ELSE 5

\* the loop over parsed_query['values']: the first int between 1 and 100
TopCount(values) ==
    LET fit == SelectSeq(values, LAMBDA v : v.isint /\ 1 <= v.m /\ v.m <= 100)
    IN IF Len(fit) > 0 THEN fit[1].m ELSE 5

_execute_top_n_query(df, parsed_query) ==
    LET n            == TopCount(parsed_query.values)
        numeric_refs == SelectSeq(parsed_query.columns, LAMBDA c : KindOf(df, c) = "number")
        numeric_cols == select_dtypes(df, "number")
        sort_col     == IF Len(numeric_refs) > 0 THEN numeric_refs[1] ELSE numeric_cols[1]
    IN IF Len(numeric_refs) = 0 /\ Len(numeric_cols) = 0
       THEN [result |-> Error("No numeric columns found for sorting"), df |-> df]
       ELSE [result |->
                [type        |-> "top_n",
                 n           |-> n,
                 sort_column |-> sort_col,
                 data        |-> nlargest(df, n, sort_col)],
             df |-> df]

_execute_comparison_query(df, parsed_query) ==
    [result |-> [type |-> "comparison", message |-> "Comparison queries not yet implemented"],
     df |-> df]

_execute_trend_query(df, parsed_query) ==
    [result |-> [type |-> "trend", message |-> "Trend analysis not yet implemented"],
     df |-> df]

_execute_general_query(df, parsed_query) ==
    [result |->
        [type         |-> "general",
         message      |-> "Processed query: " \o parsed_query.original_query,
         data_preview |-> Head_n(df.rows, 10),
         summary      |-> [total_rows    |-> Len(df.rows),
                           total_columns |-> Len(df.cols),
                           columns       |-> ColumnNames(df)]],
     df |-> df]

\* the if / elif chain of natural_language_query over parsed_query['type']
Dispatch(df, parsed_query) ==
    CASE parsed_query.type = "aggregation" -> _execute_aggregation_query(df, parsed_query)
      [] parsed_query.type = "filter"      -> _execute_filter_query(df, parsed_query)
      [] parsed_query.type = "groupby"     -> _execute_groupby_query(df, parsed_query)
      [] parsed_query.type = "top_n"       -> _execute_top_n_query(df, parsed_query)
      [] parsed_query.type = "comparison"  -> _execute_comparison_query(df, parsed_query)
      [] parsed_query.type = "trend"       -> _execute_trend_query(df, parsed_query)
      [] OTHER                             -> _execute_general_query(df, parsed_query)

-----------------------------------------------------------------------------
(* The store: Python dicts keep insertion order                            *)

Keys(dict) == [i \in 1..Len(dict) |-> dict[i].name]

Has(dict, name) == \E i \in 1..Len(dict) : dict[i].name = name

Get(dict, name) == dict[CHOOSE i \in 1..Len(dict) : dict[i].name = name]

\* dict[entry.name] = entry
Put(dict, entry) ==
    IF Has(dict, entry.name)
    THEN [i \in 1..Len(dict) |-> IF dict[i].name = entry.name THEN entry ELSE dict[i]]
    ELSE Append(dict, entry)

\* df.shape
Shape(df) == <<Len(df.rows), Len(df.cols)>>

\* no sheet name given (None, or the empty string: both are falsy)
NoSheet == ""

-----------------------------------------------------------------------------
(* load_excel_file.  A workbook file is given by what openpyxl and pandas  *)
(* make of it: whether it can be opened, and for each sheet, in workbook   *)
(* order, its name, whether it has no non-empty row, and the typed frame   *)
(* _infer_and_convert_dtypes returns for it.                               *)

\* the rows of a frame from row i on that equal no earlier row
RECURSIVE FirstOccurrences(_, _)
FirstOccurrences(rows, i) ==
    IF i > Len(rows) THEN <<>>
    ELSE (IF \E j \in 1..(i - 1) : rows[j] = rows[i] THEN <<>> ELSE <<rows[i]>>)
            \o FirstOccurrences(rows, i + 1)

\* df.isnull().sum().sum()
MissingCells(df) ==
    Cardinality({<<i, j>> \in (1..Len(df.rows)) \X (1..Len(df.cols)) : IsNull(df.rows[i][j])})

\* df.duplicated().sum(): the rows that equal an earlier row
DuplicateRows(df) == Len(df.rows) - Len(FirstOccurrences(df.rows, 1))

\* quality_score of _assess_data_quality, as an exact quotient; a division
\* of numpy numbers by 0 gives nan
quality_score(df) ==
    LET total_cells == Len(df.rows) * Len(df.cols)
    IN IF total_cells = 0 THEN NaN
       ELSE Ratio((total_cells - MissingCells(df) - DuplicateRows(df)) * 100, total_cells)

\* summary['sheets'] of _generate_comprehensive_summary
SummarySheets(the_sheets) ==
    [i \in 1..Len(the_sheets) |->
        [name          |-> the_sheets[i].name,
         rows          |-> Len(the_sheets[i].dataframe.rows),
         columns       |-> Len(the_sheets[i].dataframe.cols),
         quality_score |-> the_sheets[i].quality_score]]

\* whether _analyze_sheet raises: _detect_outliers divides by len(series)
AnalysisRaises(df) == Len(df.rows) = 0 /\ Len(select_dtypes(df, "number")) > 0

\* the loop over self.workbook.sheetnames from sheet k on; acc is
\* [sheets, dataframes, ok], ok FALSE once an exception left the loop
RECURSIVE LoadSheets(_, _, _)
LoadSheets(acc, wsheets, k) ==
    IF ~acc.ok \/ k > Len(wsheets) THEN acc
    ELSE IF wsheets[k].blank THEN LoadSheets(acc, wsheets, k + 1)
    ELSE LET df == wsheets[k].df
             stored == Put(acc.dataframes, [name |-> wsheets[k].name, dataframe |-> df])
         IN IF AnalysisRaises(df)
            THEN [sheets |-> acc.sheets, dataframes |-> stored, ok |-> FALSE]
            ELSE LoadSheets(
                    [sheets |-> Put(acc.sheets,
                                    [name      |-> wsheets[k].name,
                                     dataframe |-> df,
                                     shape     |-> Shape(df),
                                     columns   |-> ColumnNames(df),
                                     quality_score |-> quality_score(df)]),
                     dataframes |-> stored,
                     ok |-> TRUE],
                    wsheets, k + 1)

\* a load that adds the sheets of the workbook to those the store holds
LoadFileAdding(file, old_sheets, old_dataframes) ==
    IF ~file.readable
    THEN [sheets |-> old_sheets, dataframes |-> old_dataframes,
          result |-> [status |-> "error"]]
    ELSE LET acc == LoadSheets([sheets |-> old_sheets, dataframes |-> old_dataframes,
                                ok |-> TRUE],
                               file.sheets, 1)
         IN [sheets |-> acc.sheets, dataframes |-> acc.dataframes,
             result |-> IF acc.ok
                        THEN [status |-> "success", sheets |-> Keys(acc.sheets),
                              total_sheets |-> Len(acc.sheets),
                              summary |-> [sheets |-> SummarySheets(acc.sheets)]]
                        ELSE [status |-> "error"]]

\* load_excel_file as a function of the store: [sheets, dataframes, result]
LoadFile(file, old_sheets, old_dataframes) ==
    IF ~file.readable
    THEN [sheets |-> old_sheets, dataframes |-> old_dataframes,
          result |-> [status |-> "error"]]
    ELSE LET acc == LoadSheets([sheets |-> <<>>, dataframes |-> <<>>, ok |-> TRUE],
                               file.sheets, 1)
         IN [sheets |-> acc.sheets, dataframes |-> acc.dataframes,
             result |-> IF acc.ok
                        THEN [status |-> "success", sheets |-> Keys(acc.sheets),
                              total_sheets |-> Len(acc.sheets),
                              summary |-> [sheets |-> SummarySheets(acc.sheets)]]
                        ELSE [status |-> "error"]]

-----------------------------------------------------------------------------
(* natural_language_query as a function of the store                       *)

NoPlan == [type |-> "unparsed"]

\* a call that takes the first sheet when the named sheet is absent
RunQueryFirstSheet(query, sheet_name, the_sheets) ==
    IF Len(the_sheets) = 0
    THEN [parsed |-> NoPlan, result |-> Error("No Excel file loaded"), sheet |-> NoSheet]
    ELSE LET name   == IF Has(the_sheets, sheet_name) THEN sheet_name ELSE Keys(the_sheets)[1]
             df     == Get(the_sheets, name).dataframe
             parsed == _parse_natural_language_query(query, df)
             out    == Dispatch(df, parsed)
         IN [parsed |-> parsed, result |-> out.result, sheet |-> name, df |-> out.df]

\* [parsed, result, sheet, df]: the plan (NoPlan when the call returned before
\* parsing), the dict returned, the sheet the frame was taken from and the
\* frame as the call leaves it
RunQuery(query, sheet_name, the_sheets) ==
    IF Len(the_sheets) = 0
    THEN [parsed |-> NoPlan, result |-> Error("No Excel file loaded"), sheet |-> NoSheet]
    ELSE IF sheet_name # NoSheet /\ ~Has(the_sheets, sheet_name)
    THEN [parsed |-> NoPlan, result |-> Error("Sheet not found"), sheet |-> NoSheet]
    ELSE LET name   == IF sheet_name = NoSheet THEN Keys(the_sheets)[1] ELSE sheet_name
             df     == Get(the_sheets, name).dataframe
             parsed == _parse_natural_language_query(query, df)
             out    == Dispatch(df, parsed)
         IN [parsed |-> parsed, result |-> out.result, sheet |-> name, df |-> out.df]

\* the store after the call: the frame of the sheet is one object, held by
\* the entry of self.sheets and by self.dataframes
SheetsAfter(run, the_sheets) ==
    IF run.sheet = NoSheet THEN the_sheets
    ELSE [i \in 1..Len(the_sheets) |->
            IF the_sheets[i].name = run.sheet
            THEN [the_sheets[i] EXCEPT !.dataframe = run.df]
            ELSE the_sheets[i]]

-----------------------------------------------------------------------------
(* clean_data.  Of the six operations the model carries out                *)
(* remove_duplicates and normalize_text; the requests of the model name    *)
(* these two, names that no branch of the loop recognises, and items that  *)
(* are no strings.                                                         *)

\* a drop_duplicates that compares a row with the row just before it only
drop_duplicates_adjacent(df) ==
    Masked(df, [k \in 1..Cardinality({i \in 1..Len(df.rows) :
                                        i = 1 \/ df.rows[i - 1] # df.rows[i]}) |->
                    df.rows[CHOOSE i \in 1..Len(df.rows) :
                        /\ i = 1 \/ df.rows[i - 1] # df.rows[i]
                        /\ Cardinality({j \in 1..i :
                                j = 1 \/ df.rows[j - 1] # df.rows[j]}) = k]])

\* df.drop_duplicates(): the first of equal rows is kept; nulls are equal
drop_duplicates(df) == Masked(df, FirstOccurrences(df.rows, 1))

\* df[col].str.strip() and df[col].str.title() on every column of dtype
\* object; a null stays null
normalize_text(df) ==
    [df EXCEPT !.rows =
        [i \in 1..Len(df.rows) |->
            [j \in 1..Len(df.cols) |->
                IF df.cols[j].kind = "object" /\ ~IsNull(df.rows[i][j])
                THEN <<Title(Strip(df.rows[i][j][1]))>>
                ELSE df.rows[i][j]]]]

\* dict[key] = value on a dict given as a function
SetItem(dict, key, value) ==
    [k \in DOMAIN dict \cup {key} |-> IF k = key THEN value ELSE dict[k]]

\* the empty dict
EmptyDict == [k \in {} |-> 0]

\* an item of the list of operations that is no string (a JSON null), for
\* which operation.lower() raises AttributeError
None == "<None>"

\* one pass of the loop over operations; acc is [df, cleaning_report, raised]
CleanStep(acc, operation) ==
    LET operation_lower == Lower(operation)
        report == acc.cleaning_report
    IN IF operation = None
       THEN [acc EXCEPT !.raised = TRUE]
       ELSE IF Contains(operation_lower, "remove_duplicates")
       THEN LET df == drop_duplicates(acc.df)
            IN [df |-> df, raised |-> FALSE,
                cleaning_report |->
                    [report EXCEPT
                        !.operations_performed = Append(@, "remove_duplicates"),
                        !.changes_made = SetItem(@, "duplicates_removed",
                                                 Len(acc.df.rows) - Len(df.rows))]]
       ELSE IF Contains(operation_lower, "normalize_text")
       THEN [df |-> normalize_text(acc.df), raised |-> FALSE,
             cleaning_report |->
                [report EXCEPT
                    !.operations_performed = Append(@, "normalize_text"),
                    !.changes_made = SetItem(@, "text_normalized",
                                             Len(select_dtypes(acc.df, "object")))]]
       ELSE acc

\* a loop that passes over an item that raises
RECURSIVE CleanLoopLenient(_, _, _)
CleanLoopLenient(acc, operations, k) ==
    IF k > Len(operations) THEN acc
    ELSE CleanLoopLenient(IF operations[k] = None THEN acc
                          ELSE CleanStep(acc, operations[k]),
                          operations, k + 1)

\* the loop over operations from operation k on, left when a pass raises
RECURSIVE CleanLoop(_, _, _)
CleanLoop(acc, operations, k) ==
    IF acc.raised \/ k > Len(operations) THEN acc
    ELSE CleanLoop(CleanStep(acc, operations[k]), operations, k + 1)

\* clean_data up to the end of the loop, as the state of the call: either
\* it has returned an error (an exception is caught and answered by an
\* error as well), or it holds its working copy df of the frame
\* copied of the sheet, to be written to the store
CleanCall(operations, sheet_name, the_sheets) ==
    IF Len(the_sheets) = 0
    THEN [pc |-> "done", result |-> Error("No Excel file loaded")]
    ELSE IF sheet_name # NoSheet /\ ~Has(the_sheets, sheet_name)
    THEN [pc |-> "done", result |-> Error("Sheet not found")]
    ELSE LET name   == IF sheet_name = NoSheet THEN Keys(the_sheets)[1] ELSE sheet_name
             copied == Get(the_sheets, name).dataframe
             out    == CleanLoop([df |-> copied, raised |-> FALSE,
                                  cleaning_report |->
                                     [operations_performed |-> <<>>,
                                      changes_made   |-> EmptyDict,
                                      original_shape |-> Shape(copied),
                                      final_shape    |-> Shape(copied)]],
                                 operations, 1)
         IN IF out.raised
            THEN [pc |-> "done", result |-> Error("Error cleaning data")]
            ELSE [pc |-> "store_sheet", operations |-> operations, sheet_name |-> name,
                  copied |-> copied, df |-> out.df,
                  cleaning_report |-> out.cleaning_report]

\* a write that cleans the frame the store holds by now
StoreSheetCleanedNow(the_sheets, call) ==
    [i \in 1..Len(the_sheets) |->
        IF the_sheets[i].name = call.sheet_name
        THEN [the_sheets[i] EXCEPT !.dataframe =
                CleanLoop([df |-> @, raised |-> FALSE,
                           cleaning_report |-> call.cleaning_report],
                          call.operations, 1).df]
        ELSE the_sheets[i]]

\* a call that does not touch the entry of the sheet
StoreSheetNot(the_sheets, call) == the_sheets

\* self.sheets[sheet_name]['dataframe'] = df
StoreSheet(the_sheets, call) ==
    [i \in 1..Len(the_sheets) |->
        IF the_sheets[i].name = call.sheet_name
        THEN [the_sheets[i] EXCEPT !.dataframe = call.df]
        ELSE the_sheets[i]]

\* self.dataframes[sheet_name] = df
StoreDataframe(the_dataframes, call) ==
    Put(the_dataframes, [name |-> call.sheet_name, dataframe |-> call.df])

\* rows.to_dict('records')
Records(df, rows) ==
    [i \in 1..Len(rows) |-> [c \in Range(ColumnNames(df)) |-> Cell(df, rows[i], c)]]

\* the dict clean_data returns after the writes
CleanResult(call) ==
    [status |-> "success",
     cleaning_report |-> [call.cleaning_report EXCEPT !.final_shape = Shape(call.df)],
     data_preview |-> Records(call.df, Head_n(call.df.rows, 10))]

-----------------------------------------------------------------------------
(* Inputs                                                                  *)

\* the number of rows of a generated table
MaxRows == 2

\* the number of phrases of a generated query
MaxPhrases == 2

Schema == <<[name |-> "Region",  kind |-> "object"],
            [name |-> "Revenue", kind |-> "number"],
            [name |-> "Date",    kind |-> "datetime"]>>

\* rows for generated tables: dates 2023-01-15 and 2023-05-20, and a row
\* with a null Revenue and a null Date
RowPool == { << <<"East">>, <<100>>, <<15>> >>,
             << <<"East">>, <<200>>, <<140>> >>,
             << <<"West">>, <<>>,    <<>> >> }

GeneratedTables ==
    {[cols |-> Schema, rows |-> rows] :
        rows \in UNION {[1..n -> RowPool] : n \in 0..MaxRows}}

\* the table of the scenarios of the specification
ScenarioTable ==
    [cols |-> <<[name |-> "Region",  kind |-> "object"],
                [name |-> "Revenue", kind |-> "number"]>>,
     rows |-> << << <<"East">>, <<100>> >>,
                 << <<"West">>, <<200>> >>,
                 << <<"East">>, <<300>> >> >>]

DataTable ==
    [cols |-> Schema,
     rows |-> << << <<"West">>, <<200>>, <<69>> >>,
                 << <<>>,       <<300>>, <<40>> >>,
                 << <<"East">>, <<>>,    <<75>> >>,
                 << <<"East">>, <<200>>, <<>> >>,
                 << <<"West">>, <<50>>,  <<200>> >> >>]

NotesTable ==
    [cols |-> <<[name |-> "Label", kind |-> "object"]>>,
     rows |-> << << <<"top sales">> >>, << <<>> >> >>]

OneSheet(name, df) ==
    [readable |-> TRUE, sheets |-> <<[name |-> name, blank |-> FALSE, df |-> df]>>]

ScenarioFile == OneSheet("Sales", ScenarioTable)

\* a workbook of three sheets, the second without any non-empty row
TwoTableFile ==
    [readable |-> TRUE,
     sheets |-> <<[name |-> "Data",  blank |-> FALSE, df |-> DataTable],
                  [name |-> "Blank", blank |-> TRUE,  df |-> NotesTable],
                  [name |-> "Notes", blank |-> FALSE, df |-> NotesTable]>>]

\* a file openpyxl cannot open
BrokenFile == [readable |-> FALSE, sheets |-> <<>>]

Files ==
    {OneSheet("Sales", df) : df \in GeneratedTables}
        \cup {ScenarioFile, TwoTableFile, BrokenFile}

TextFiles == {ScenarioFile, TwoTableFile}

SheetNames == {NoSheet, "Notes", "Missing"}

\* a table with equal rows apart from each other, equal rows of nulls, and
\* texts that differ in case and blanks only
CleanTable ==
    [cols |-> <<[name |-> "Label",  kind |-> "object"],
                [name |-> "Amount", kind |-> "number"]>>,
     rows |-> << << <<" east">>, <<100>> >>,
                 << <<"East">>,  <<100>> >>,
                 << <<" east">>, <<100>> >>,
                 << <<>>,        <<>> >>,
                 << <<>>,        <<>> >> >>]

CleanFiles == {OneSheet("Sales", CleanTable), TwoTableFile, BrokenFile}

\* the lists of operations requested
OperationLists ==
    {<<>>,
     <<"remove_duplicates">>,
     <<"normalize_text">>,
     <<"Normalize_Text", "x remove_duplicates">>,
     <<"remove_duplicates", "dedupe", "normalize_text", "remove_duplicates">>,
     <<"remove_duplicates", None, "normalize_text">>}

CleanQueries == {"count amount", "by label"}

\* a table without rows that has a numeric column
EmptyTable == [cols |-> Schema, rows |-> <<>>]

\* a workbook whose first sheet has no non-empty row
LedFile ==
    [readable |-> TRUE,
     sheets |-> <<[name |-> "Cover", blank |-> TRUE,  df |-> NotesTable],
                  [name |-> "Sales", blank |-> FALSE, df |-> CleanTable]>>]

\* a workbook the analysis of whose second sheet raises
HalfFile ==
    [readable |-> TRUE,
     sheets |-> <<[name |-> "Data",  blank |-> FALSE, df |-> DataTable],
                  [name |-> "Empty", blank |-> FALSE, df |-> EmptyTable]>>]

\* a table of two equal rows without a missing cell
TwinTable ==
    [cols |-> <<[name |-> "Region",  kind |-> "object"],
                [name |-> "Revenue", kind |-> "number"]>>,
     rows |-> << << <<"East">>, <<100>> >>,
                 << <<"East">>, <<100>> >> >>]

LoadFiles ==
    {ScenarioFile, TwoTableFile, LedFile, HalfFile, BrokenFile, OneSheet("Twins", TwinTable)}

LoadQueries == {"total revenue", "count amount"}

\* the questions put to excel_answer
LegacyQuestions ==
    {"total revenue", "count amount", "top 2 by revenue", "show region", "revenue by region"}

\* the number of temporary files up to which requests are followed
MaxTempFiles == 2

\* an upload request: whether it has the part named file, the name of the
\* file, whether file.save succeeds, and the workbook the file holds
UploadRequests ==
    [has_file : BOOLEAN,
     filename : {"", "book.xlsx", "Sheet.CSV", "notes.txt"},
     save_ok  : BOOLEAN,
     workbook : {ScenarioFile, TwoTableFile, BrokenFile}]

\* a request of the legacy chat endpoint
ChatRequests ==
    [has_file : BOOLEAN,
     question : {"", "total revenue"},
     save_ok  : BOOLEAN]

\* the operations requested by the threads that clean at the same time
RaceOperations == {<<"remove_duplicates">>, <<"normalize_text">>}

RaceFiles == {OneSheet("Sales", CleanTable), TwoTableFile}

Phrases == {"total", "top 2", "show", "by", "revenue", "Region", "> 150", "q1"}

RECURSIVE Join(_)
Join(words) ==
    IF Len(words) = 0 THEN ""
    ELSE IF Len(words) = 1 THEN words[1]
    ELSE words[1] \o " " \o Join(Tail(words))

GeneratedQueries ==
    {Join(words) : words \in UNION {[1..n -> Phrases] : n \in 0..MaxPhrases}}

FixedQueries ==
    {"", "top 1 region by revenue", "revenue > 150", "total revenue", "sum top 3",
     "show revenue > 150", "show revenue > 150 < 300", "Show Region > 150",
     "show > 150",
     "total region > 150", "show region = 150", "show revenue >= 200 in march",
     "top 2 revenue", "top revenue", "best 1", "top 2 revenue in q1",
     "top 101 3.0 1 revenue", "average sales in q1", "count Revenue = 200.0 in March",
     "lowest region", "highest revenue", "by region", "region by date",
     "compare revenue trend", "total revenue q2 q1 may march"}

\* the words of the queries that are only parsed
PlanWords ==
    {"sum", "Average", "count", "highest", "lowest", "sales", "date", "region",
     "show", "top"}

PlanQueries ==
    {Join(words) : words \in UNION {[1..n -> PlanWords] : n \in 0..MaxPhrases}}

PlanTables == {ScenarioTable, DataTable}

-----------------------------------------------------------------------------
(* Calls                                                                   *)

Idle == [op |-> "idle"]

\* the request threads that call clean_data
Callers == {1, 2}

\* a thread that is not in clean_data
NotCalled == [pc |-> "idle"]

NoPrev == [op |-> "none"]

Init ==
    /\ sheets = <<>>
    /\ dataframes = <<>>
    /\ resp = Idle
    /\ prev = NoPrev
    /\ tempfiles = 0
    /\ calls = [c \in Callers |-> NotCalled]

load_excel_file(file) ==
    /\ resp = Idle
    /\ LET loaded == LoadFile(file, sheets, dataframes)
       IN /\ sheets' = loaded.sheets
          /\ dataframes' = loaded.dataframes
          /\ resp' = [op |-> "load", file |-> file, result |-> loaded.result]
    /\ prev' = NoPrev
    /\ UNCHANGED others

\* the call excel_bot.natural_language_query(query, sheet_name)
Query(query, sheet_name) ==
    LET run == RunQuery(query, sheet_name, sheets)
    IN /\ sheets' = SheetsAfter(run, sheets)
       /\ dataframes' = SheetsAfter(run, dataframes)
       /\ resp' = [op |-> "query", query |-> query, sheet_name |-> sheet_name,
                   parsed |-> run.parsed, result |-> run.result]

natural_language_query(query, sheet_name) ==
    /\ resp = Idle
    /\ Query(query, sheet_name)
    /\ prev' = NoPrev
    /\ UNCHANGED others

\* the caller sends the query it has just got an answer to once more, for
\* the same sheet or for another one
RepeatQuery(sheet_name) ==
    /\ resp.op = "query"
    /\ prev = NoPrev
    /\ Query(resp.query, sheet_name)
    /\ prev' = resp
    /\ UNCHANGED others

\* the call excel_bot.clean_data(operations, sheet_name)
Clean(operations, sheet_name) ==
    LET call == CleanCall(operations, sheet_name, sheets)
    IN IF call.pc = "done"
       THEN /\ resp' = [op |-> "clean", operations |-> operations,
                        sheet_name |-> sheet_name, result |-> call.result]
            /\ UNCHANGED store
       ELSE /\ sheets' = StoreSheet(sheets, call)
            /\ dataframes' = StoreDataframe(dataframes, call)
            /\ resp' = [op |-> "clean", operations |-> operations,
                        sheet_name |-> sheet_name, sheet |-> call.sheet_name,
                        copied |-> call.copied, result |-> CleanResult(call)]

clean_data(operations, sheet_name) ==
    /\ resp = Idle
    /\ Clean(operations, sheet_name)
    /\ prev' = NoPrev
    /\ UNCHANGED others

\* the caller follows a clean_data call by another one
CleanAgain(operations, sheet_name) ==
    /\ resp.op = "clean"
    /\ prev = NoPrev
    /\ Clean(operations, sheet_name)
    /\ prev' = resp
    /\ UNCHANGED others

\* the caller follows a clean_data call by a query
QueryCleaned(query, sheet_name) ==
    /\ resp.op = "clean"
    /\ prev = NoPrev
    /\ Query(query, sheet_name)
    /\ prev' = resp
    /\ UNCHANGED others

\* a request thread enters clean_data and runs it up to the end of the loop
\* over operations, on its own copy of the frame
clean_data_enter(c, operations, sheet_name) ==
    /\ calls[c] = NotCalled
    /\ calls' = [calls EXCEPT ![c] = CleanCall(operations, sheet_name, sheets)]
    /\ UNCHANGED <<sheets, dataframes, resp, prev, tempfiles>>

\* the thread assigns to self.sheets[sheet_name]['dataframe']
clean_data_store_sheet(c) ==
    /\ calls[c].pc = "store_sheet"
    /\ sheets' = StoreSheet(sheets, calls[c])
    /\ calls' = [calls EXCEPT ![c].pc = "store_dataframe"]
    /\ UNCHANGED <<dataframes, resp, prev, tempfiles>>

\* the thread assigns to self.dataframes[sheet_name] and returns
clean_data_store_dataframe(c) ==
    /\ calls[c].pc = "store_dataframe"
    /\ dataframes' = StoreDataframe(dataframes, calls[c])
    /\ calls' = [calls EXCEPT ![c] =
                    [pc |-> "done", operations |-> @.operations,
                     sheet_name |-> @.sheet_name, copied |-> @.copied,
                     df |-> @.df, result |-> CleanResult(@)]]
    /\ UNCHANGED <<sheets, resp, prev, tempfiles>>

\* the request of the thread is answered
clean_data_return(c) ==
    /\ calls[c].pc = "done"
    /\ calls' = [calls EXCEPT ![c] = NotCalled]
    /\ UNCHANGED <<sheets, dataframes, resp, prev, tempfiles>>

\* no thread is in clean_data
Quiet == \A c \in Callers : calls[c] = NotCalled

\* the position of the last "." of the string, 0 when it has none
LastDot(s) ==
    LET at == {i \in 1..Len(s) : CharAt(s, i) = "."}
    IN IF at = {} THEN 0 ELSE CHOOSE i \in at : \A j \in at : j <= i

\* os.path.splitext(filename)[1] of a name without directory part: from the
\* last "." on, unless only "." come before it
splitext(filename) ==
    LET dot == LastDot(filename)
    IN IF dot = 0 \/ \A i \in 1..(dot - 1) : CharAt(filename, i) = "."
       THEN ""
       ELSE SubSeq(filename, dot, Len(filename))

allowed_extensions == {".xlsx", ".xls", ".csv"}

\* the temporary file as openpyxl finds it: load_workbook raises
\* InvalidFileException for a name that ends in .xls or .csv
Saved(workbook, file_ext) == [workbook EXCEPT !.readable = @ /\ file_ext = ".xlsx"]

\* jsonify(body), code
Response(op, code, body) == [op |-> op, code |-> code, body |-> body]

\* the route /api/excel/upload
upload_excel(request) ==
    /\ resp = Idle
    /\ tempfiles < MaxTempFiles
    /\ LET file_ext == Lower(splitext(request.filename))
       IN IF ~request.has_file
          THEN /\ resp' = Response("upload", 400, Error("No file provided"))
               /\ UNCHANGED <<store, tempfiles>>
          ELSE IF request.filename = ""
          THEN /\ resp' = Response("upload", 400, Error("No file selected"))
               /\ UNCHANGED <<store, tempfiles>>
          ELSE IF file_ext \notin allowed_extensions
          THEN /\ resp' = Response("upload", 400, Error("Unsupported file type"))
               /\ UNCHANGED <<store, tempfiles>>
          ELSE IF ~request.save_ok
          THEN \* NamedTemporaryFile(delete=False) has made the file and
               \* file.save raises: the handler of Exception answers
               /\ tempfiles' = tempfiles + 1
               /\ resp' = Response("upload", 500, Error("Upload failed"))
               /\ UNCHANGED store
          ELSE LET loaded == LoadFile(Saved(request.workbook, file_ext),
                                      sheets, dataframes)
               IN /\ sheets' = loaded.sheets
                  /\ dataframes' = loaded.dataframes
                  \* the file made is removed by os.unlink
                  /\ tempfiles' = (tempfiles + 1) - 1
                  /\ resp' = IF loaded.result.status = "error"
                             THEN Response("upload", 500, Error("load failed"))
                             ELSE Response("upload", 200, loaded.result)
    /\ prev' = NoPrev
    /\ UNCHANGED calls

\* the attributes of the object excel_bot that are methods of its class;
\* excel_answer is a function of the module and none of them
Methods ==
    {"load_excel_file", "natural_language_query", "generate_formula", "clean_data",
     "create_chart", "create_pivot_table", "validate_data",
     "generate_automation_script", "export_data"}

\* the route /api/excel/chat
chat_excel(request) ==
    /\ resp = Idle
    /\ tempfiles < MaxTempFiles
    /\ IF ~request.has_file
       THEN /\ resp' = Response("chat", 400, Error("No file provided"))
            /\ UNCHANGED tempfiles
       ELSE IF request.question = ""
       THEN /\ resp' = Response("chat", 400, Error("No question provided"))
            /\ UNCHANGED tempfiles
       ELSE IF ~request.save_ok \/ "excel_answer" \notin Methods
       THEN \* the file is made, and file.save or the look-up of
            \* excel_bot.excel_answer raises: the handler of Exception answers
            /\ tempfiles' = tempfiles + 1
            /\ resp' = Response("chat", 500, Error("Chat failed"))
       ELSE \* the answer is made and the file removed by os.unlink
            /\ tempfiles' = (tempfiles + 1) - 1
            /\ resp' = Response("chat", 200, [bot_type |-> "excel"])
    /\ prev' = NoPrev
    /\ UNCHANGED <<store, calls>>

\* the call self._parse_natural_language_query(query, df)
Parse(query, df) ==
    /\ resp = Idle
    /\ resp' = [op |-> "parse", query |-> query, df |-> df,
                parsed |-> _parse_natural_language_query(query, df)]
    /\ UNCHANGED <<store, prev, tempfiles, calls>>

\* the caller follows a load_excel_file call by another one
Reload(file) ==
    /\ resp.op = "load"
    /\ prev = NoPrev
    /\ LET loaded == LoadFile(file, sheets, dataframes)
       IN /\ sheets' = loaded.sheets
          /\ dataframes' = loaded.dataframes
          /\ resp' = [op |-> "load", file |-> file, result |-> loaded.result]
    /\ prev' = resp
    /\ UNCHANGED others

\* the caller follows a load_excel_file call by a query
QueryLoaded(query, sheet_name) ==
    /\ resp.op = "load"
    /\ Query(query, sheet_name)
    /\ prev' = resp
    /\ UNCHANGED others

\* the string excel_answer returns for the dict the query returned, by the
\* values it is formatted from
AnswerOf(result) ==
    IF "error" \in DOMAIN result
    THEN [says |-> "Error", error |-> result.error]
    ELSE IF result.type = "aggregation"
    THEN [says |-> "formatted_results", operation |-> result.operation,
          results |-> result.results]
    ELSE IF result.type = "filter"
    THEN [says |-> "Found rows matching your criteria",
          filtered_rows |-> result.filtered_rows]
    ELSE IF result.type = "groupby"
    THEN [says |-> "Grouped by", grouping_columns |-> result.grouping_columns,
          aggregation_columns |-> result.aggregation_columns]
    ELSE IF result.type = "top_n"
    THEN [says |-> "Top records by", n |-> result.n,
          sort_column |-> result.sort_column]
    ELSE [says |-> result.message]

\* the function excel_answer(file_path, question) of the module, on the
\* object excel_bot the routes use
excel_answer(file_path, question) ==
    /\ resp = Idle
    /\ LET load   == Len(sheets) = 0
           loaded == IF load
                     THEN LoadFile(file_path, sheets, dataframes)
                     ELSE [sheets |-> sheets, dataframes |-> dataframes]
           run    == RunQuery(question, NoSheet, loaded.sheets)
       IN IF load /\ loaded.result.status = "error"
          THEN /\ sheets' = loaded.sheets
               /\ dataframes' = loaded.dataframes
               /\ resp' = [op |-> "answer", file |-> file_path, question |-> question,
                           answer |-> [says |-> "Error loading file"]]
          ELSE /\ sheets' = SheetsAfter(run, loaded.sheets)
               /\ dataframes' = SheetsAfter(run, loaded.dataframes)
               /\ resp' = [op |-> "answer", file |-> file_path, question |-> question,
                           answer |-> AnswerOf(run.result)]
    /\ prev' = NoPrev
    /\ UNCHANGED others

\* the caller has taken the answer
Return ==
    /\ resp # Idle
    /\ resp' = Idle
    /\ prev' = NoPrev
    /\ UNCHANGED store
    /\ UNCHANGED others

\* every table against the fixed queries
Next ==
    \/ \E file \in Files : load_excel_file(file)
    \/ \E query \in FixedQueries, sheet_name \in SheetNames :
            natural_language_query(query, sheet_name)
    \/ \E sheet_name \in SheetNames : RepeatQuery(sheet_name)
    \/ Return

Spec == Init /\ [][Next]_vars

\* every generated query against the fixed workbooks
NextText ==
    \/ \E file \in TextFiles : load_excel_file(file)
    \/ \E query \in GeneratedQueries, sheet_name \in SheetNames :
            natural_language_query(query, sheet_name)
    \/ \E sheet_name \in SheetNames : RepeatQuery(sheet_name)
    \/ Return

SpecText == Init /\ [][NextText]_vars

\* the parser alone, on every generated query
NextParse ==
    \/ \E query \in PlanQueries, df \in PlanTables : Parse(query, df)
    \/ Return

SpecParse == Init /\ [][NextParse]_vars

\* uploads one after another
NextLoad ==
    \/ \E file \in LoadFiles : load_excel_file(file)
    \/ \E file \in LoadFiles : Reload(file)
    \/ \E query \in LoadQueries, sheet_name \in SheetNames : QueryLoaded(query, sheet_name)
    \/ Return

SpecLoad == Init /\ [][NextLoad]_vars

\* the legacy entry point, one workbook after another
NextLegacy ==
    \/ \E file_path \in LoadFiles, question \in LegacyQuestions :
            excel_answer(file_path, question)
    \/ Return

SpecLegacy == Init /\ [][NextLegacy]_vars

\* cleaning, one call at a time
NextClean ==
    \/ \E file \in CleanFiles : load_excel_file(file)
    \/ \E operations \in OperationLists, sheet_name \in SheetNames :
            clean_data(operations, sheet_name)
    \/ \E operations \in OperationLists, sheet_name \in SheetNames :
            CleanAgain(operations, sheet_name)
    \/ \E query \in CleanQueries, sheet_name \in SheetNames :
            QueryCleaned(query, sheet_name)
    \/ Return

SpecClean == Init /\ [][NextClean]_vars

\* two request threads in clean_data at the same time
NextRace ==
    \/ \E file \in RaceFiles : Quiet /\ load_excel_file(file)
    \/ \E c \in Callers, operations \in RaceOperations, sheet_name \in {NoSheet, "Missing"} :
            clean_data_enter(c, operations, sheet_name)
    \/ \E c \in Callers : clean_data_store_sheet(c)
    \/ \E c \in Callers : clean_data_store_dataframe(c)
    \/ \E c \in Callers : clean_data_return(c)
    \/ Return

SpecRace == Init /\ [][NextRace]_vars

\* the requests of the routes that take a file, and queries
NextRoutes ==
    \/ \E request \in UploadRequests : upload_excel(request)
    \/ \E request \in ChatRequests : chat_excel(request)
    \/ \E query \in FixedQueries, sheet_name \in SheetNames :
            natural_language_query(query, sheet_name)
    \/ Return

SpecRoutes == Init /\ [][NextRoutes]_vars

-----------------------------------------------------------------------------
(* Properties                                                              *)

\* the query call that has just returned got as far as a plan
Parsed == resp.op = "query" /\ resp.parsed # NoPlan

\* the frame the query call that has just returned was given
Queried ==
    Get(sheets, IF resp.sheet_name = NoSheet THEN Keys(sheets)[1] ELSE resp.sheet_name).dataframe

KeywordsOf(qtype) == (CHOOSE p \in Range(patterns) : p.qtype = qtype).keywords

\* a keyword of the set of qtype occurs in the lower-cased query
Mentions(qtype) == AnyIn(KeywordsOf(qtype), Lower(resp.query))

\* C1: the intent of a plan is the first of aggregation, filter, groupby and
\* top_n, in that order, one of whose keywords occurs in the lower-cased
\* query; a query with both an aggregation keyword and a top-N keyword is
\* therefore an aggregation
C1_Precedence ==
    Parsed =>
        /\ Mentions("aggregation") => resp.parsed.type = "aggregation"
        /\ ~Mentions("aggregation") /\ Mentions("filter") => resp.parsed.type = "filter"
        /\ ~Mentions("aggregation") /\ ~Mentions("filter") /\ Mentions("groupby")
              => resp.parsed.type = "groupby"
        /\ ~Mentions("aggregation") /\ ~Mentions("filter") /\ ~Mentions("groupby")
              /\ Mentions("top_n") => resp.parsed.type = "top_n"

C1_Witness ==
    /\ Parsed
    /\ Mentions("aggregation") /\ Mentions("top_n")
    /\ ~AnyIn(<<"highest">>, Lower(resp.query))
    /\ resp.parsed.type = "aggregation"

Intents == {"aggregation", "filter", "groupby", "top_n", "comparison", "trend", "general"}

\* C2: every query made of a table gets a plan, whose intent is one of the
\* seven tags, and is general when no keyword of the four sets occurs in the
\* query; the same query text asked again, of whatever table, gets the
\* same intent
C2_Classified ==
    /\ resp.op = "query" /\ Len(sheets) > 0
            /\ (resp.sheet_name = NoSheet \/ Has(sheets, resp.sheet_name))
          => resp.parsed # NoPlan
    /\ Parsed =>
          /\ resp.parsed.type \in Intents
          /\ (\A k \in 1..Len(patterns) : ~Mentions(patterns[k].qtype))
                => resp.parsed.type = "general"
    /\ Parsed /\ prev.op = "query" /\ prev.parsed # NoPlan
          => prev.query = resp.query /\ prev.parsed.type = resp.parsed.type

C2_Witness ==
    /\ Parsed /\ prev.op = "query" /\ prev.parsed # NoPlan
    /\ prev.sheet_name # resp.sheet_name
    /\ prev.parsed.columns # resp.parsed.columns
    /\ resp.parsed.type # "general"

\* the query call that has just returned gave a result of the kind type
Answered(type) ==
    Parsed /\ "type" \in DOMAIN resp.result /\ resp.result.type = type

\* C3: asked "top 1 region by revenue" of the table with the rows
\* (East, 100), (West, 200), (East, 300), the program resolves the intent
\* top_n with N = 1 and returns the single row (East, 300)
C3_TopRegion ==
    Parsed /\ resp.query = "top 1 region by revenue" /\ Queried = ScenarioTable
        => /\ resp.parsed.type = "top_n"
           /\ Answered("top_n")
           /\ resp.result.n = 1
           /\ resp.result.data = << << <<"East">>, <<300>> >> >>

\* C4: asked "revenue > 150" of the same table, the program resolves the
\* intent filter and returns exactly the two rows whose Revenue is 200 and 300
C4_RevenueAbove ==
    Parsed /\ resp.query = "revenue > 150" /\ Queried = ScenarioTable
        => /\ resp.parsed.type = "filter"
           /\ Answered("filter")
           /\ resp.result.filtered_rows = 2
           /\ resp.result.data = << << <<"West">>, <<200>> >>, << <<"East">>, <<300>> >> >>

\* a cell of a column of the kind kind satisfies condition: it is a number x
\* with x <operator> m / 10^d
Holds(cell, kind, condition) ==
    /\ kind = "number"
    /\ cell # Null
    /\ LET x == cell[1] * Pow10(condition.value.d)
           m == condition.value.m
       IN \/ condition.operator = ">"  /\ x > m
          \/ condition.operator = "<"  /\ x < m
          \/ condition.operator = ">=" /\ x >= m
          \/ condition.operator = "<=" /\ x <= m
          \/ condition.operator = "="  /\ x = m

\* C5 as claimed: a filter result has filtered_rows <= total_rows and every
\* row of its data satisfies every condition of the plan, whatever the
\* columns the plan references: in every referenced column, and in a number
\* of the row when the plan references no column
C5_FilterAnyColumns ==
    Answered("filter") =>
        /\ resp.result.filtered_rows <= resp.result.total_rows
        /\ \A i \in 1..Len(resp.result.data) :
           \A k \in 1..Len(resp.parsed.conditions) :
              IF Len(resp.parsed.columns) > 0
              THEN \A c \in Range(resp.parsed.columns) :
                      Holds(Cell(Queried, resp.result.data[i], c), KindOf(Queried, c),
                            resp.parsed.conditions[k])
              ELSE \E c \in Range(select_dtypes(Queried, "number")) :
                      Holds(Cell(Queried, resp.result.data[i], c), "number",
                            resp.parsed.conditions[k])

\* C5: a filter result has filtered_rows <= total_rows, and every row of its
\* data satisfies every condition of the plan in every column the plan
\* references; when the plan references no column the conditions are not
\* applied and every row of the table is returned
C5_FilterSound ==
    Answered("filter") =>
        /\ resp.result.filtered_rows <= resp.result.total_rows
        /\ resp.result.total_rows = Len(Queried.rows)
        /\ Len(resp.result.data) = resp.result.filtered_rows
        /\ \A i \in 1..Len(resp.result.data) :
           \A c \in Range(resp.parsed.columns) :
           \A k \in 1..Len(resp.parsed.conditions) :
              Holds(Cell(Queried, resp.result.data[i], c), KindOf(Queried, c),
                    resp.parsed.conditions[k])
        /\ Len(resp.parsed.columns) = 0 => resp.result.data = Head_n(Queried.rows, 20)

C5_Witness ==
    /\ Answered("filter")
    /\ Len(resp.parsed.conditions) > 1
    /\ \E c \in Range(resp.parsed.columns) : KindOf(Queried, c) = "number"
    /\ 0 < resp.result.filtered_rows
    /\ resp.result.filtered_rows < resp.result.total_rows

\* the rows of df that satisfy every condition in every numeric column of columns
NumericMatches(df, columns, conditions) ==
    SelectSeq(df.rows, LAMBDA r :
        \A c \in Range(columns) : \A k \in 1..Len(conditions) :
            KindOf(df, c) = "number" => Holds(Cell(df, r, c), "number", conditions[k]))

\* C6: a condition on a referenced text column is skipped: the filter or the
\* aggregation still gives a result, not an error, over the rows it would
\* have kept had the condition not been applied to that column
C6_TextConditionSkipped ==
    /\ Parsed
    /\ resp.parsed.type \in {"filter", "aggregation"}
    /\ Len(resp.parsed.conditions) > 0
    /\ Len(Queried.rows) > 0
    /\ \A c \in Range(resp.parsed.columns) : KindOf(Queried, c) # "datetime"
    /\ \E c \in Range(resp.parsed.columns) : KindOf(Queried, c) = "object"
    /\ resp.parsed.time_filters = [quarter |-> 0, month |-> 0]
    /\ resp.parsed.type = "aggregation" => resp.parsed.aggregation_type = "count"
    => /\ Answered(resp.parsed.type)
       /\ resp.result.filtered_rows =
             Len(NumericMatches(Queried, resp.parsed.columns, resp.parsed.conditions))

\* C7: a query call, whatever its intent and its outcome, leaves the store
\* (the sheets and their frames) as it found it, and the same query of the
\* same sheet made again straight away returns the same result
C7_ReadOnly ==
    [][ /\ resp'.op = "query" => sheets' = sheets /\ dataframes' = dataframes
        /\ resp.op = "query" /\ resp'.op = "query" /\ resp'.query = resp.query
              /\ resp'.sheet_name = resp.sheet_name
            => resp'.result = resp.result ]_vars

C7_Witness ==
    /\ Answered("filter")
    /\ resp.result.filtered_rows < resp.result.total_rows
    /\ prev.op = "query"
    /\ prev.sheet_name = resp.sheet_name
    /\ prev.result = resp.result

\* C8: a query call returns a dict: an error when the store is empty, an
\* error when the sheet named is not in the store, and otherwise either an
\* error or a result whose type is the intent of the plan, never both and
\* never neither
C8_ErrorsAreData ==
    resp.op = "query" =>
        /\ ("error" \in DOMAIN resp.result) # ("type" \in DOMAIN resp.result)
        /\ Len(sheets) = 0 => "error" \in DOMAIN resp.result
        /\ resp.sheet_name # NoSheet /\ ~Has(sheets, resp.sheet_name)
              => "error" \in DOMAIN resp.result
        /\ "type" \in DOMAIN resp.result
              => resp.parsed # NoPlan /\ resp.result.type = resp.parsed.type

C8_Witness ==
    /\ Parsed
    /\ resp.sheet_name # NoSheet
    /\ "error" \in DOMAIN resp.result
    /\ "type" \notin DOMAIN resp.result

\* the plan of the query call that has just returned has a calendar filter
\* and its frame a datetime column
Dated ==
    /\ Parsed
    /\ resp.parsed.time_filters # [quarter |-> 0, month |-> 0]
    /\ Len(select_dtypes(Queried, "datetime")) > 0

\* row r of the frame queried lies in the quarter and the month of the plan
InPeriod(r) ==
    LET day == Cell(Queried, r, select_dtypes(Queried, "datetime")[1])
        time_filters == resp.parsed.time_filters
    IN /\ day # Null
       /\ time_filters.quarter # 0 => QuarterOf(day[1]) = time_filters.quarter
       /\ time_filters.month # 0 => MonthOf(day[1]) = time_filters.month

\* C9: whatever the intent, the calendar filter comes first: when the plan
\* has a calendar filter and the frame a datetime column, no row outside the
\* quarter or month is part of the result (the rows counted by an
\* aggregation, the rows returned by a filter, a top-N or a preview, the
\* rows a group is made of)
C9_CalendarFirst ==
    Dated /\ "type" \in DOMAIN resp.result =>
        LET inside == SelectSeq(Queried.rows, InPeriod)
        IN /\ Answered("aggregation") => resp.result.filtered_rows <= Len(inside)
           /\ Answered("filter") =>
                 \A i \in 1..Len(resp.result.data) : InPeriod(resp.result.data[i])
           /\ Answered("top_n") =>
                 \A i \in 1..Len(resp.result.data) : InPeriod(resp.result.data[i])
           /\ Answered("general") =>
                 \A i \in 1..Len(resp.result.data_preview) :
                     InPeriod(resp.result.data_preview[i])
           /\ Answered("groupby") =>
                 \A g \in 1..Len(resp.result.data) : \E i \in 1..Len(inside) :
                     resp.result.data[g].key =
                         [k \in 1..Len(resp.result.grouping_columns) |->
                            Cell(Queried, inside[i], resp.result.grouping_columns[k])[1]]

\* the sequences of n distinct row numbers of a frame of count rows
Picks(count, n) ==
    {p \in [1..n -> 1..count] : \A i, j \in 1..n : i # j => p[i] # p[j]}

\* row i, whose cell in the sort column is a, ranks before row j, whose cell
\* is b: by descending value, rows of equal value in row order, rows
\* without a value last and in row order
Before(a, i, b, j) ==
    \/ a # Null /\ b = Null
    \/ a # Null /\ b # Null /\ (a[1] > b[1] \/ (a[1] = b[1] /\ i < j))
    \/ a = Null /\ b = Null /\ i < j

\* data is made of the rows of df that rank first by column col, in rank order
TopRanked(df, col, data) ==
    \E p \in Picks(Len(df.rows), Len(data)) :
        /\ \A i \in 1..Len(data) : data[i] = df.rows[p[i]]
        /\ \A i, j \in 1..Len(data) :
              i < j => Before(Cell(df, df.rows[p[i]], col), p[i],
                              Cell(df, df.rows[p[j]], col), p[j])
        /\ \A i \in 1..Len(data) : \A k \in 1..Len(df.rows) :
              k \notin Range(p) => Before(Cell(df, df.rows[p[i]], col), p[i],
                                          Cell(df, df.rows[k], col), k)

Smaller(a, b) == IF a < b THEN a ELSE b

\* C10 as claimed: a top-N result has min(N, number of rows with a value in
\* the sort column) rows; they are the rows of largest value, in descending
\* order, rows of equal value in their original order
C10_TopValued ==
    Answered("top_n") =>
        /\ Len(resp.result.data) =
              Smaller(resp.result.n, Len(Values(Queried, resp.result.sort_column)))
        /\ TopRanked(Queried, resp.result.sort_column, resp.result.data)

\* C10: a top-N result has min(N, number of rows) rows: the rows with a
\* value in the sort column come first, largest values first and rows of
\* equal value in their original order, every value returned being at least
\* every value left out; rows without a value follow, in their original
\* order, only when fewer than N rows have one
C10_TopN ==
    Answered("top_n") =>
        /\ Len(resp.result.data) = Smaller(resp.result.n, Len(Queried.rows))
        /\ TopRanked(Queried, resp.result.sort_column, resp.result.data)

C10_Witness ==
    /\ Answered("top_n")
    /\ \E i \in 1..Len(resp.result.data) :
          Cell(Queried, resp.result.data[i], resp.result.sort_column) = Null
    /\ \E i \in 1..Len(resp.result.data) : \E j \in 1..Len(resp.result.data) :
          /\ i < j
          /\ resp.result.data[i] # resp.result.data[j]
          /\ Cell(Queried, resp.result.data[i], resp.result.sort_column) # Null
          /\ Cell(Queried, resp.result.data[i], resp.result.sort_column)
                = Cell(Queried, resp.result.data[j], resp.result.sort_column)

RECURSIVE Written(_, _)
\* the comparison expressions written in s from index i on, read from left
\* to right, an operator of two characters taken whole
Written(s, i) ==
    IF i > Len(s) THEN <<>>
    ELSE LET two == IF i + 1 <= Len(s) THEN SubSeq(s, i, i + 1) ELSE ""
             op  == IF two \in {">=", "<="} THEN two
                    ELSE IF CharAt(s, i) \in {">", "<", "="} THEN CharAt(s, i)
                    ELSE ""
             j   == SkipSpaces(s, i + Len(op))
         IN IF op # "" /\ j <= Len(s) /\ IsDigit(CharAt(s, j))
            THEN <<[operator |-> op,
                    value |-> ParseNumber(SubSeq(s, j, NumberEnd(s, j)))]>>
                     \o Written(s, NumberEnd(s, j) + 1)
            ELSE Written(s, i + 1)

\* the number of times x occurs in the sequence xs
Occurrences(x, xs) == Cardinality({i \in 1..Len(xs) : xs[i] = x})

\* C11: the plan has exactly one condition for each comparison expression
\* written in the query, with the operator as written: no further condition
\* comes from a part of an expression (the = of a >= or of a <=)
C11_OneConditionEach ==
    Parsed =>
        LET written == Written(resp.query, 1)
            conditions == resp.parsed.conditions
        IN /\ Len(conditions) = Len(written)
           /\ \A x \in Range(written) :
                 Occurrences(x, conditions) = Occurrences(x, written)

\* the columns of the kind kind that the plan references
Referenced(kind) ==
    SelectSeq(resp.parsed.columns, LAMBDA c : KindOf(Queried, c) = kind)

\* C12: an aggregation whose query references no numeric column (no column,
\* or only text and date columns) is computed over the first numeric column
\* of the table, and is an error when the table has no numeric column
C12_AggregationFallback ==
    Parsed /\ resp.parsed.type = "aggregation" /\ Len(Referenced("number")) = 0
           /\ Len(resp.parsed.conditions) = 0
        => IF Len(select_dtypes(Queried, "number")) = 0
           THEN "error" \in DOMAIN resp.result
           ELSE /\ Answered("aggregation")
                /\ resp.result.columns = <<select_dtypes(Queried, "number")[1]>>
                /\ DOMAIN resp.result.results = {select_dtypes(Queried, "number")[1]}

\* C13: a groupby whose query references no text column is an error; in a
\* groupby result the grouping columns are the referenced text columns, the
\* aggregation columns are numeric (the referenced numeric columns, or the
\* first numeric column of the table when none is referenced), and no column
\* is both
C13_GroupbyRoles ==
    Parsed /\ resp.parsed.type = "groupby" =>
        /\ Len(Referenced("object")) = 0 => "error" \in DOMAIN resp.result
        /\ Answered("groupby") =>
              /\ resp.result.grouping_columns = Referenced("object")
              /\ \A c \in Range(resp.result.grouping_columns) : KindOf(Queried, c) = "object"
              /\ \A c \in Range(resp.result.aggregation_columns) : KindOf(Queried, c) = "number"
              /\ Range(resp.result.grouping_columns)
                    \cap Range(resp.result.aggregation_columns) = {}
              /\ resp.result.aggregation_columns =
                    IF Len(Referenced("number")) > 0 THEN Referenced("number")
                    ELSE <<select_dtypes(Queried, "number")[1]>>

C13_Witness ==
    /\ Answered("groupby")
    /\ Len(Referenced("number")) = 0
    /\ Len(resp.result.aggregation_columns) = 1
    /\ resp.result.total_groups > 1

\* C17: asked "total revenue" of the table with the rows (East, 100),
\* (West, 200), (East, 300), the program resolves an aggregation of kind sum
\* over the column Revenue alone and returns the sum 600 with
\* filtered_rows = 3 and total_rows = 3
C17_TotalRevenue ==
    Parsed /\ resp.query = "total revenue" /\ Queried = ScenarioTable
        => /\ resp.parsed.type = "aggregation"
           /\ resp.parsed.aggregation_type = "sum"
           /\ resp.parsed.columns = <<"Revenue">>
           /\ Answered("aggregation")
           /\ resp.result.operation = "sum"
           /\ resp.result.columns = <<"Revenue">>
           /\ resp.result.results = [c \in {"Revenue"} |-> IntValue(600)]
           /\ resp.result.filtered_rows = 3
           /\ resp.result.total_rows = 3

C17_Witness ==
    /\ Answered("aggregation")
    /\ resp.query = "total revenue"
    /\ Queried = ScenarioTable
    /\ resp.result.filtered_rows = 3

\* C18: no query gets the intent comparison or trend, and no query call
\* returns the placeholder of the comparison or of the trend branch
C18_StubsUnreachable ==
    /\ Parsed => resp.parsed.type \notin {"comparison", "trend"}
    /\ resp.op = "query" /\ "type" \in DOMAIN resp.result
          => /\ resp.result.type \notin {"comparison", "trend"}
             /\ "message" \in DOMAIN resp.result
                   => resp.result.message \notin
                          {"Comparison queries not yet implemented",
                           "Trend analysis not yet implemented"}

C18_Witness ==
    /\ Parsed
    /\ Contains(Lower(resp.query), "compare")
    /\ Contains(Lower(resp.query), "trend")
    /\ Answered("general")

\* the literal v can be the count of a top-N: an integer written without a
\* decimal point, from 1 to 100
Countable(v) == v.isint /\ 1 <= v.m /\ v.m <= 100

\* C20: the count N of a top-N result is the first literal of the query,
\* from left to right, that is an integer without decimal point from 1 to
\* 100; literals out of that range and decimal literals are passed over, and
\* N is 5 when no literal qualifies
C20_TopCount ==
    Answered("top_n") =>
        LET values == resp.parsed.values
        IN /\ values = FindNumbers(resp.query, 1)
           /\ \/ /\ \A i \in 1..Len(values) : ~Countable(values[i])
                 /\ resp.result.n = 5
              \/ \E i \in 1..Len(values) :
                    /\ Countable(values[i])
                    /\ \A j \in 1..(i - 1) : ~Countable(values[j])
                    /\ resp.result.n = values[i].m
           /\ resp.query = "top 101 3.0 1 revenue" => resp.result.n = 1

C20_Witness ==
    /\ Answered("top_n")
    /\ Len(resp.parsed.values) = 3
    /\ ~resp.parsed.values[1].isint \/ resp.parsed.values[1].m > 100
    /\ ~resp.parsed.values[2].isint
    /\ resp.result.n = resp.parsed.values[3].m

\* the call in r is a clean_data call that returned success
CleanedBy(r) == r.op = "clean" /\ "status" \in DOMAIN r.result

\* the frame the store holds for the sheet
Stored(name) == Get(sheets, name).dataframe

\* the names, as the report spells them, of the requested operations that
\* some branch of the loop recognises, in the order of the request
RECURSIVE Applied(_)
Applied(operations) ==
    IF Len(operations) = 0 THEN <<>>
    ELSE (IF Contains(Lower(operations[1]), "remove_duplicates")
          THEN <<"remove_duplicates">>
          ELSE IF Contains(Lower(operations[1]), "normalize_text")
          THEN <<"normalize_text">>
          ELSE <<>>) \o Applied(Tail(operations))

\* the table the caller of a successful clean_data call was shown
Shown(r) ==
    [cols |-> r.copied.cols,
     rows |-> [i \in 1..Len(r.result.data_preview) |->
                 [j \in 1..Len(r.copied.cols) |->
                     r.result.data_preview[i][r.copied.cols[j].name]]]]

\* the query in resp is for the sheet the call before it cleaned
QueriesCleaned ==
    /\ resp.op = "query"
    /\ CleanedBy(prev)
    /\ \/ resp.sheet_name = prev.sheet
       \/ resp.sheet_name = NoSheet /\ Keys(sheets)[1] = prev.sheet

\* C15: after clean_data has returned success for a sheet, the store holds
\* the cleaned table for that sheet, in the entry of the sheet and in the
\* map of tables, and a query on the sheet that follows is answered from the
\* cleaned table; operations_performed lists the operations applied, in the
\* order of the request
C15_CleaningPersists ==
    /\ CleanedBy(resp) =>
          /\ Has(sheets, resp.sheet) /\ Has(dataframes, resp.sheet)
          /\ Stored(resp.sheet) = Shown(resp)
          /\ Get(dataframes, resp.sheet).dataframe = Shown(resp)
          /\ resp.result.cleaning_report.final_shape = Shape(Stored(resp.sheet))
          /\ resp.result.cleaning_report.operations_performed = Applied(resp.operations)
    /\ QueriesCleaned =>
          /\ Stored(prev.sheet) = Shown(prev)
          /\ resp.result =
                RunQuery(resp.query, prev.sheet,
                         <<[name |-> prev.sheet, dataframe |-> Shown(prev)]>>).result

C15_Witness ==
    /\ QueriesCleaned
    /\ "type" \in DOMAIN resp.result
    /\ Len(prev.result.cleaning_report.operations_performed) = 2
    /\ resp.result #
          RunQuery(resp.query, prev.sheet,
                   <<[name |-> prev.sheet, dataframe |-> prev.copied]>>).result

\* the rows of the frame that equal an earlier row
Duplicates(df) ==
    {i \in 1..Len(df.rows) : \E j \in 1..(i - 1) : df.rows[j] = df.rows[i]}

\* the k-th smallest number of the set
Nth(S, k) == CHOOSE i \in S : Cardinality({j \in S : j <= i}) = k

\* the call in r applied remove_duplicates and nothing else
Deduplicated(r) ==
    CleanedBy(r) /\ r.result.cleaning_report.operations_performed = <<"remove_duplicates">>

\* C16: remove_duplicates removes the rows that equal an earlier row and no
\* other row: of a table with k such rows it leaves the other rows in their
\* order, the row count drops by k and duplicates_removed is k; applied to
\* the table once more it removes no row
C16_RemoveDuplicates ==
    /\ Deduplicated(resp) =>
          LET before == resp.copied
              after  == Stored(resp.sheet)
              kept   == (1..Len(before.rows)) \ Duplicates(before)
              k      == Cardinality(Duplicates(before))
          IN /\ after.cols = before.cols
             /\ after.rows = [n \in 1..Cardinality(kept) |-> before.rows[Nth(kept, n)]]
             /\ Len(after.rows) = Len(before.rows) - k
             /\ resp.result.cleaning_report.changes_made.duplicates_removed = k
             /\ resp.result.cleaning_report.final_shape
                    = <<Len(before.rows) - k, Len(before.cols)>>
    /\ /\ Deduplicated(resp)
       /\ CleanedBy(prev)
       /\ prev.sheet = resp.sheet
       /\ Len(prev.result.cleaning_report.operations_performed) > 0
       /\ Last(prev.result.cleaning_report.operations_performed) = "remove_duplicates"
       => /\ resp.result.cleaning_report.changes_made.duplicates_removed = 0
          /\ Stored(resp.sheet) = resp.copied

C16_Witness ==
    /\ Deduplicated(resp)
    /\ Deduplicated(prev)
    /\ prev.sheet = resp.sheet
    /\ prev.result.cleaning_report.changes_made.duplicates_removed = 2
    /\ \E i \in Duplicates(prev.copied) : prev.copied.rows[i - 1] # prev.copied.rows[i]
    /\ resp.result.cleaning_report.changes_made.duplicates_removed = 0

\* C14: a request of the upload route or of the legacy chat route leaves no
\* temporary file behind: each file it makes is removed before it returns,
\* also when saving, loading or answering fails
C14_TempFilesDeleted == [][tempfiles' = tempfiles]_vars

\* both threads have returned success from clean_data for the same sheet,
\* each having copied the same table
BothCleaned ==
    /\ \A c \in Callers : calls[c].pc = "done" /\ "status" \in DOMAIN calls[c].result
    /\ calls[1].sheet_name = calls[2].sheet_name
    /\ calls[1].copied = calls[2].copied

\* the table copied by thread c with its operations and then those of d
Both(c, d) ==
    CleanLoop([df |-> calls[c].df, raised |-> FALSE,
               cleaning_report |-> calls[d].result.cleaning_report],
              calls[d].operations, 1).df

\* C19: two clean_data calls on the same sheet that both copy the table
\* before either writes both return success, and the table the store then
\* holds for the sheet is the working copy of one of them, the table copied
\* with the operations of that call alone: the update of the other is lost
C19_LostUpdate ==
    BothCleaned => Stored(calls[1].sheet_name) \in {calls[1].df, calls[2].df}

C19_Witness ==
    /\ BothCleaned
    /\ \A c \in Callers : calls[c].df # calls[c].copied
    /\ Stored(calls[1].sheet_name) \in {calls[1].df, calls[2].df}
    /\ Stored(calls[1].sheet_name) \notin {Both(1, 2), Both(2, 1)}

\* a parser call has just returned its plan
Planned == resp.op = "parse"

\* the aggregation kinds in the order the extractor tries them
KindOrder == <<"sum", "mean", "count", "max", "min">>

\* the words of an aggregation kind
KindWords(kind) ==
    CASE kind = "sum"   -> <<"sum", "total", "add">>
      [] kind = "mean"  -> <<"average", "mean", "avg">>
      [] kind = "count" -> <<"count", "number">>
      [] kind = "max"   -> <<"max", "highest", "maximum">>
      [] kind = "min"   -> <<"min", "lowest", "minimum">>

\* the places in KindOrder of the kinds a word of which occurs in the
\* lower-cased query
KindsNamed == {k \in 1..Len(KindOrder) : AnyIn(KindWords(KindOrder[k]), Lower(resp.query))}

\* C21: the aggregation kind of a plan is the first of sum, mean, count,
\* max, min, in that order, a word of which occurs in the lower-cased query
\* (a query with a word of sum and a word of mean is a sum), and sum when
\* no word of any kind occurs
C21_KindOrder ==
    Planned =>
        /\ KindsNamed = {} => resp.parsed.aggregation_type = "sum"
        /\ \A k \in KindsNamed :
              (\A j \in KindsNamed : k <= j) => resp.parsed.aggregation_type = KindOrder[k]

C21_Witness ==
    /\ Planned
    /\ resp.query = "Average sum"
    /\ KindsNamed = {1, 2}
    /\ resp.parsed.aggregation_type = "sum"

\* column c of the table parsed for is named in the lower-cased query
Direct(c) == Contains(Lower(resp.query), Lower(c))

\* a variant of synonym k occurs in the lower-cased query and the lower-cased
\* name of column c contains the key of that synonym
Via(c, k) ==
    /\ AnyIn(column_synonyms[k].variants, Lower(resp.query))
    /\ Contains(Lower(c), column_synonyms[k].synonym)

Included(c) == Direct(c) \/ \E k \in 1..Len(column_synonyms) : Via(c, k)

\* the pass of the extractor that finds column c: 0 for the pass over the
\* names, k for the pass over the variants of synonym k
Pass(c) ==
    IF Direct(c) THEN 0
    ELSE CHOOSE k \in 1..Len(column_synonyms) :
            Via(c, k) /\ \A j \in 1..Len(column_synonyms) : Via(c, j) => k <= j

\* C23 as stated: the columns of a plan are the columns of the table that are
\* named in the query or reached by a synonym, in the order of the table
C23_DeclaredOrder ==
    Planned => resp.parsed.columns = SelectSeq(ColumnNames(resp.df), Included)

\* C23: the columns of a plan are columns of the table, none twice: a column
\* is among them exactly when its lower-cased name occurs in the lower-cased
\* query or a variant of a synonym occurs and the name contains the key of
\* that synonym.  The columns named in the query come first, in the order
\* of the table; the columns reached by a synonym only follow, in the order
\* of the synonym table and, for one synonym, in the order of the table
C23_Columns ==
    Planned =>
        LET columns == resp.parsed.columns
            names   == ColumnNames(resp.df)
        IN /\ Range(columns) = {c \in Range(names) : Included(c)}
           /\ \A i, j \in 1..Len(columns) : i < j =>
                 /\ columns[i] # columns[j]
                 /\ \/ Pass(columns[i]) < Pass(columns[j])
                    \/ /\ Pass(columns[i]) = Pass(columns[j])
                       /\ ColIdx(resp.df, columns[i]) < ColIdx(resp.df, columns[j])

C23_Witness ==
    /\ Planned
    /\ Len(resp.parsed.columns) = 2
    /\ Pass(resp.parsed.columns[1]) = 0
    /\ Pass(resp.parsed.columns[2]) > 0
    /\ ColIdx(resp.df, resp.parsed.columns[2]) < ColIdx(resp.df, resp.parsed.columns[1])

\* C30: every keyword of the aggregation set of the classifier is a word of
\* one of the five aggregation kinds, so the kind of a plan whose intent is
\* aggregation is that of a word that occurs in the query and never the
\* default
C30_KindNamed ==
    /\ \A keyword \in Range(KeywordsOf("aggregation")) :
          \E k \in 1..Len(KindOrder) : keyword \in Range(KindWords(KindOrder[k]))
    /\ Planned /\ resp.parsed.type = "aggregation" =>
          /\ KindsNamed # {}
          /\ AnyIn(KindWords(resp.parsed.aggregation_type), Lower(resp.query))

C30_Witness ==
    /\ Planned
    /\ resp.parsed.type = "aggregation"
    /\ resp.parsed.aggregation_type = "sum"
    /\ Contains(Lower(resp.query), "sum")
    /\ Contains(Lower(resp.query), "lowest")

\* the last place of the text at which the word begins, 0 when it does not
\* occur
LastPlace(t, k) ==
    LET at == {i \in 1..(Len(t) - Len(k) + 1) : SubSeq(t, i, i + Len(k) - 1) = k}
    IN IF at = {} THEN 0 ELSE CHOOSE i \in at : \A j \in at : j <= i

\* the number of the name that occurs last in the text, 0 when none occurs
TextLast(names, t) ==
    LET hit == {i \in 1..Len(names) : Contains(t, names[i])}
    IN IF hit = {} THEN 0
       ELSE CHOOSE i \in hit : \A j \in hit : LastPlace(t, names[j]) <= LastPlace(t, names[i])

\* C22 as stated, the last match being the last token of the text: the
\* quarter and the month of a plan are those of the quarter token and of the
\* month name that come last in the query
C22_LastInText ==
    Parsed =>
        /\ resp.parsed.time_filters.quarter = TextLast(quarters, Lower(resp.query))
        /\ resp.parsed.time_filters.month = TextLast(months, Lower(resp.query))

\* number is what the scan over names leaves: none (0) when no name occurs
\* in the text, else the number of the last name of the list that occurs
ScanLeaves(number, names, t) ==
    /\ number \in 0..Len(names)
    /\ number = 0 <=> \A i \in 1..Len(names) : ~Contains(t, names[i])
    /\ number # 0 => /\ Contains(t, names[number])
                     /\ \A j \in (number + 1)..Len(names) : ~Contains(t, names[j])

\* C22: a plan has at most one quarter and at most one month.  Of several
\* quarter tokens in the query the one that is last in the order q1, q2,
\* q3, q4 of the scan is kept, wherever it stands in the text, and likewise
\* the month name that is last in the order of the calendar.  An aggregation
\* without conditions counts the rows whose date, in the first datetime
\* column, lies in the quarter and in the month of the plan, and every row
\* when the table has no datetime column
C22_CalendarFilters ==
    Parsed =>
        /\ ScanLeaves(resp.parsed.time_filters.quarter, quarters, Lower(resp.query))
        /\ ScanLeaves(resp.parsed.time_filters.month, months, Lower(resp.query))
        /\ Answered("aggregation") /\ Len(resp.parsed.conditions) = 0 =>
              resp.result.filtered_rows =
                  IF Dated THEN Len(SelectSeq(Queried.rows, InPeriod))
                  ELSE resp.result.total_rows

C22_Witness ==
    /\ Answered("aggregation")
    /\ Dated
    /\ resp.parsed.time_filters = [quarter |-> 2, month |-> 5]
    /\ TextLast(quarters, Lower(resp.query)) = 1
    /\ TextLast(months, Lower(resp.query)) = 3
    /\ resp.result.filtered_rows = 1
    /\ resp.result.total_rows = 2

\* the call in r is a load_excel_file call that returned success
LoadedBy(r) == r.op = "load" /\ r.result.status = "success"

\* the sheets of a workbook that have a non-empty row, in workbook order
Filled(file) == SelectSeq(file.sheets, LAMBDA sheet : ~sheet.blank)

\* C24: after load_excel_file has returned success, the sheets of the store
\* are the sheets of the new workbook that have a non-empty row, in workbook
\* order and with the tables of that workbook, in both maps: nothing of the
\* workbook loaded before remains; a query without sheet name that follows
\* is answered from the first of these sheets
C24_ReplacedWholesale ==
    /\ LoadedBy(resp) =>
          LET filled == Filled(resp.file)
          IN /\ Keys(sheets) = [i \in 1..Len(filled) |-> filled[i].name]
             /\ Keys(dataframes) = Keys(sheets)
             /\ resp.result.sheets = Keys(sheets)
             /\ \A i \in 1..Len(filled) :
                   /\ sheets[i].dataframe = filled[i].df
                   /\ dataframes[i].dataframe = filled[i].df
    /\ resp.op = "query" /\ LoadedBy(prev) /\ resp.sheet_name = NoSheet =>
          LET first == Filled(prev.file)[1]
          IN resp.result =
                RunQuery(resp.query, first.name,
                         <<[name |-> first.name, dataframe |-> first.df]>>).result

C24_Witness ==
    /\ LoadedBy(resp)
    /\ LoadedBy(prev)
    /\ Len(prev.result.sheets) = 2
    /\ \A i \in 1..2 : ~Has(sheets, prev.result.sheets[i])
    /\ resp.file.sheets[1].blank
    /\ Keys(sheets) = <<"Sales">>

\* the cells of the frame that are not missing and lie in no row that equals
\* an earlier row
SoundCells(df) ==
    {<<i, j>> \in (1..Len(df.rows)) \X (1..Len(df.cols)) :
        /\ ~IsNull(df.rows[i][j])
        /\ \A k \in 1..(i - 1) : df.rows[k] # df.rows[i]}

C27_FailedLoadKeepsStore ==
    [][resp'.op = "load" /\ resp'.result.status = "error"
          => /\ sheets' = sheets
             /\ dataframes' = dataframes
             /\ Keys(sheets') = Keys(dataframes')]_vars

\* C26: clean_data changes the store all at once or not at all: a call that
\* returns an error leaves both maps of the store as they were, and a call
\* returns an error when the store is empty, when the sheet named is not in
\* the store and when an operation of the list fails, also after operations
\* that came before it in the list
C26_AllOrNothing ==
    [][resp'.op = "clean" =>
          /\ "error" \in DOMAIN resp'.result => sheets' = sheets /\ dataframes' = dataframes
          /\ \/ Len(sheets) = 0
             \/ resp'.sheet_name # NoSheet /\ ~Has(sheets, resp'.sheet_name)
             \/ None \in Range(resp'.operations)
             => "error" \in DOMAIN resp'.result]_vars

C26_Witness ==
    /\ resp.op = "clean"
    /\ "error" \in DOMAIN resp.result
    /\ Len(resp.operations) > 1
    /\ resp.operations[1] = "remove_duplicates"
    /\ None \in Range(resp.operations)
    /\ resp.sheet_name = NoSheet
    /\ Len(sheets) > 0
    /\ Duplicates(Stored(Keys(sheets)[1])) # {}

\* C28: for every sheet of the store the recorded shape and columns are
\* those of the table of the sheet, and the map of tables holds that same
\* table for the sheet
C28_MetadataConsistent ==
    \A i \in 1..Len(sheets) :
        /\ sheets[i].shape = Shape(sheets[i].dataframe)
        /\ sheets[i].columns = ColumnNames(sheets[i].dataframe)
        /\ Has(dataframes, sheets[i].name)
        /\ Get(dataframes, sheets[i].name).dataframe = sheets[i].dataframe

\* what excel_answer returns when it answers against the workbook at file_path
AnswerFrom(file_path, question) ==
    LET loaded == LoadFile(file_path, <<>>, <<>>)
    IN IF loaded.result.status = "error"
       THEN [says |-> "Error loading file"]
       ELSE AnswerOf(RunQuery(question, NoSheet, loaded.sheets).result)

\* C29: every call excel_answer(file_path, question) returns the answer to
\* the question against the workbook at file_path, whatever calls with
\* other workbooks came before it
C29_AnswersFromFile ==
    resp.op = "answer" => resp.answer = AnswerFrom(resp.file, resp.question)

====
